---- MODULE Spec2Model ----
(***************************************************************************)
(* Thinking-signature error recovery of CLIProxyAPI: the invalid-signature *)
(* blacklist (internal/cache), the error classifiers, the payload          *)
(* sanitizers and the three recovery wrappers                              *)
(* (executeClaudeNonStreamWithRecovery, executeClaudeStreamWithRecovery,   *)
(* claudeThinkingRecoveryTransport.RoundTrip).                             *)
(*                                                                         *)
(* Byte strings of the program are TLA+ strings; a JSON request payload is *)
(* the tree gjson/sjson walk (records with optional fields, sequences).    *)
(* Time is counted in hours.                                               *)
(***************************************************************************)
EXTENDS Integers, Sequences, FiniteSets, TLC

VARIABLES
    cache,          \* invalidSignatureCache: sessionID -> (signature -> time of the record)
    cleanupStarted, \* invalidCleanupOnce has fired: the purge goroutine runs
    sweeping,       \* the sessions the sweep found empty and unlocked, not yet deleted
    now,            \* time.Now(), in hours
    recorded,       \* history: <<session, signature>> -> the time of its last record, while it is
                    \* within TTL and no clear of the session followed
    pc,             \* per request: "idle", "wait1", "wait2", "done"
    req,            \* per request: wrapper, payloads, session id, answers, result
    journal,        \* per request: history of upstream calls, answers and blacklist writes
    call,           \* the last direct call of the cache or of a sanitizer: arguments and result
    invalidSignatureCache,  \* the sync.Map, step by step: session id -> address of its partition
    heap,           \* address -> the sessionInvalidCache there: its mu and its entries
    goroutines      \* per goroutine: where it is in the function it runs, and its locals

\* The state of the cache as its goroutines see it between two of their steps.
lockVars == <<invalidSignatureCache, heap, goroutines>>

vars == <<cache, cleanupStarted, sweeping, now, recorded, pc, req, journal, call, lockVars>>

----------------------------------------------------------------------------
(* Bounds and program constants *)

\* The clock stops here (hours); one more than the TTL lets an entry expire.
MaxTime == 4

\* InvalidSignatureCacheTTL = 3 * time.Hour
InvalidSignatureCacheTTL == 3

StatusBadRequest == 400

----------------------------------------------------------------------------
(* Byte strings: strings.ToLower, strings.Contains, strings.HasPrefix *)

LowerChar(c) ==
    CASE c = "A" -> "a" [] c = "B" -> "b" [] c = "C" -> "c" [] c = "D" -> "d"
      [] c = "E" -> "e" [] c = "F" -> "f" [] c = "G" -> "g" [] c = "H" -> "h"
      [] c = "I" -> "i" [] c = "J" -> "j" [] c = "K" -> "k" [] c = "L" -> "l"
      [] c = "M" -> "m" [] c = "N" -> "n" [] c = "O" -> "o" [] c = "P" -> "p"
      [] c = "Q" -> "q" [] c = "R" -> "r" [] c = "S" -> "s" [] c = "T" -> "t"
      [] c = "U" -> "u" [] c = "V" -> "v" [] c = "W" -> "w" [] c = "X" -> "x"
      [] c = "Y" -> "y" [] c = "Z" -> "z" [] OTHER -> c

\* Character by character; the string is halved to keep the evaluation shallow.
RECURSIVE ToLower(_)
ToLower(s) ==
    IF Len(s) = 0 THEN ""
    ELSE IF Len(s) = 1 THEN LowerChar(s)
    ELSE LET h == Len(s) \div 2
         IN  ToLower(SubSeq(s, 1, h)) \o ToLower(SubSeq(s, h + 1, Len(s)))

Contains(s, substr) ==
    \E i \in 1..(Len(s) - Len(substr) + 1) : SubSeq(s, i, i + Len(substr) - 1) = substr

HasPrefix(s, prefix) ==
    Len(s) >= Len(prefix) /\ SubSeq(s, 1, Len(prefix)) = prefix

IsDigit(c) == c \in {"0", "1", "2", "3", "4", "5", "6", "7", "8", "9"}

DigitValue(c) ==
    CASE c = "0" -> 0 [] c = "1" -> 1 [] c = "2" -> 2 [] c = "3" -> 3 [] c = "4" -> 4
      [] c = "5" -> 5 [] c = "6" -> 6 [] c = "7" -> 7 [] c = "8" -> 8 [] c = "9" -> 9

\* strconv.Atoi / fmt.Sscanf("%d") on a string of digits
RECURSIVE Atoi(_)
Atoi(s) ==
    IF s = "" THEN 0
    ELSE 10 * Atoi(SubSeq(s, 1, Len(s) - 1)) + DigitValue(SubSeq(s, Len(s), Len(s)))

\* The length of the longest run of digits of s that starts at position i (\d+ is greedy).
RECURSIVE DigitRun(_, _)
DigitRun(s, i) ==
    IF i <= Len(s) /\ IsDigit(SubSeq(s, i, i)) THEN 1 + DigitRun(s, i + 1) ELSE 0

\* JSON string escaping of a message inside an envelope
RECURSIVE JsonEscape(_)
JsonEscape(s) ==
    IF Len(s) = 0 THEN ""
    ELSE IF Len(s) = 1
    THEN (IF s = "\"" THEN "\\\"" ELSE IF s = "\\" THEN "\\\\" ELSE s)
    ELSE LET h == Len(s) \div 2
         IN  JsonEscape(SubSeq(s, 1, h)) \o JsonEscape(SubSeq(s, h + 1, Len(s)))

----------------------------------------------------------------------------
(* Error bodies.  A JSON error document is kept as a tree; its bytes are    *)
(* its compact serialization, and gjson's parse is the inverse of that     *)
(* serialization over the documents in play.                               *)

MsgCoord10   == "messages.1.content.0: Invalid signature in thinking block"
MsgCoord11   == "messages.1.content.1: Invalid signature in thinking block"
MsgCoord70   == "messages.7.content.0: Invalid signature in thinking block"
MsgNoCoord   == "INVALID SIGNATURE IN THINKING BLOCK"
\* Anthropic quotes the two words; the quote character stands for the backquote of the
\* original message, which a TLA+ string cannot hold.
MsgQuoted    == "messages.1.content.0: Invalid 'signature' in 'thinking' block"
MsgUnrelated == "model not found"

\* The three words in another order, and two of the three.
MsgReordered   == "thinking block: signature is invalid"
MsgNoInvalid   == "signature in thinking block"
MsgNoSignature == "Invalid thinking block"
MsgNoThinking  == "Invalid signature"
MsgEmpty       == ""
\* A text with characters that JSON escapes.
MsgEscaped     == "messages.1.content.0: Invalid \"signature\" in \"thinking\" block"

\* Two coordinates, a coordinate of several digits, and texts that come close to one.
MsgTwoCoords   == "messages.2.content.1: Invalid signature in thinking block (after messages.3.content.0)"
MsgLongCoord   == "messages.12.content.10: Invalid signature in thinking block"
MsgNearCoord   == "messages.x.content.0, messages.1.content: Invalid signature in thinking block"

Messages == {MsgCoord10, MsgCoord11, MsgCoord70, MsgNoCoord, MsgQuoted, MsgUnrelated,
             MsgReordered, MsgNoInvalid, MsgNoSignature, MsgNoThinking, MsgEmpty, MsgEscaped,
             MsgTwoCoords, MsgLongCoord, MsgNearCoord}

\* {"error":{"message":m}}
FlatDoc(m) == [error |-> [message |-> m]]
\* {"message":m}
TopDoc(m) == [message |-> m]
\* {"type":"error","error":{"type":"invalid_request_error","message":m}}
AnthropicDoc(m) == [type |-> "error", error |-> [type |-> "invalid_request_error", message |-> m]]

InnerDocs == {FlatDoc(m) : m \in Messages} \cup {AnthropicDoc(m) : m \in Messages}

InnerBytes(d) ==
    IF "type" \in DOMAIN d
    THEN "{\"type\":\"error\",\"error\":{\"type\":\"invalid_request_error\",\"message\":\""
             \o JsonEscape(d.error.message) \o "\"}}"
    ELSE "{\"error\":{\"message\":\"" \o JsonEscape(d.error.message) \o "\"}}"

\* {"error":{"code":400,"message":"<the inner document, JSON-encoded>","status":"INVALID_ARGUMENT"}}
RpcDoc(inner) == [error |-> [code |-> 400, message |-> InnerBytes(inner), status |-> "INVALID_ARGUMENT"]]

\* {"error":{"message":"<the flat document of m, JSON-encoded>"}}
NestedDoc(m) == FlatDoc(InnerBytes(FlatDoc(m)))

JsonDocs == InnerDocs \cup {TopDoc(m) : m \in Messages} \cup {RpcDoc(d) : d \in InnerDocs}
               \cup {NestedDoc(m) : m \in Messages}

DocBytes(d) ==
    IF "error" \notin DOMAIN d
    THEN "{\"message\":\"" \o JsonEscape(d.message) \o "\"}"
    ELSE IF "code" \in DOMAIN d.error
    THEN "{\"error\":{\"code\":400,\"message\":\"" \o JsonEscape(d.error.message)
             \o "\",\"status\":\"INVALID_ARGUMENT\"}}"
    ELSE InnerBytes(d)

\* The serialization of every document in play, computed once.
BytesOfDoc == [d \in JsonDocs |-> DocBytes(d)]

\* gjson.Get(json, "error.message").String(): "" when the path does not exist
\* (a body that is no JSON document has no path).
GjsonErrorMessage(json) ==
    IF \E d \in JsonDocs : BytesOfDoc[d] = json
    THEN LET d == CHOOSE d \in JsonDocs : BytesOfDoc[d] = json
         IN  IF "error" \in DOMAIN d THEN d.error.message ELSE ""
    ELSE ""

\* gjson.Get(json, "message").String()
GjsonMessage(json) ==
    IF \E d \in JsonDocs : BytesOfDoc[d] = json
    THEN LET d == CHOOSE d \in JsonDocs : BytesOfDoc[d] = json
         IN  IF "message" \in DOMAIN d THEN d.message ELSE ""
    ELSE ""

----------------------------------------------------------------------------
(* Error classifiers and coordinate extraction *)

\* extractErrorMessage (Claude)
extractErrorMessage(body) ==
    IF GjsonErrorMessage(body) # "" THEN GjsonErrorMessage(body)
    ELSE IF GjsonMessage(body) # "" THEN GjsonMessage(body)
    ELSE body

\* Variant: the document embedded as a string is not unwrapped.
extractAntigravityOuterMessage(body) ==
    IF GjsonErrorMessage(body) # "" THEN GjsonErrorMessage(body)
    ELSE IF GjsonMessage(body) # "" THEN GjsonMessage(body)
    ELSE body

\* extractAntigravityErrorMessage: unwraps the Anthropic error embedded as a string
extractAntigravityErrorMessage(body) ==
    LET outerMsg == GjsonErrorMessage(body)
    IN  IF outerMsg # ""
        THEN IF HasPrefix(outerMsg, "{") /\ GjsonErrorMessage(outerMsg) # ""
             THEN GjsonErrorMessage(outerMsg)
             ELSE outerMsg
        ELSE IF GjsonMessage(body) # "" THEN GjsonMessage(body)
        ELSE body

isClaudeThinkingInvalidSignatureError(statusCode, body) ==
    IF statusCode # 400 THEN FALSE
    ELSE LET msgLower == ToLower(extractErrorMessage(body))
         IN  Contains(msgLower, "invalid signature") /\ Contains(msgLower, "thinking")

isAntigravityThinkingSignatureError(statusCode, body) ==
    IF statusCode # 400 THEN FALSE
    ELSE LET msgLower == ToLower(extractAntigravityErrorMessage(body))
         IN  /\ Contains(msgLower, "invalid")
             /\ Contains(msgLower, "signature")
             /\ Contains(msgLower, "thinking")

\* containsThinkingSignaturePattern (handlers)
containsThinkingSignaturePattern(msgLower) ==
    /\ Contains(msgLower, "invalid")
    /\ Contains(msgLower, "signature")
    /\ Contains(msgLower, "thinking")

\* json.Valid, over the texts in play: the serializations of the documents
JsonValid(text) == \E d \in JsonDocs : BytesOfDoc[d] = text

\* isThinkingSignatureErrorText (handlers)
isThinkingSignatureErrorText(errText) ==
    IF errText = "" THEN FALSE
    ELSE IF containsThinkingSignaturePattern(ToLower(errText)) THEN TRUE
    ELSE IF ~JsonValid(errText) THEN FALSE
    ELSE \/ /\ GjsonErrorMessage(errText) # ""
            /\ \/ containsThinkingSignaturePattern(ToLower(GjsonErrorMessage(errText)))
               \/ /\ JsonValid(GjsonErrorMessage(errText))
                  /\ containsThinkingSignaturePattern(
                         ToLower(GjsonErrorMessage(GjsonErrorMessage(errText))))
         \/ /\ GjsonMessage(errText) # ""
            /\ containsThinkingSignaturePattern(ToLower(GjsonMessage(errText)))

\* *interfaces.ErrorMessage: nil, or a status code with an error that is nil or has a text
NilErrorMessage == [nil |-> TRUE]
ErrorMessage(statusCode, error) == [StatusCode |-> statusCode, Error |-> error]
NilError == [nil |-> TRUE]
ErrorsNew(text) == [text |-> text]

\* Variant: the status code is not looked at.
ShouldFallbackThinkingSignatureAnyStatus(err) ==
    IF err = NilErrorMessage \/ err.Error = NilError THEN FALSE
    ELSE isThinkingSignatureErrorText(err.Error.text)

\* ShouldFallbackThinkingSignature (handlers)
ShouldFallbackThinkingSignature(err) ==
    IF err = NilErrorMessage \/ err.StatusCode # 400 \/ err.Error = NilError THEN FALSE
    ELSE isThinkingSignatureErrorText(err.Error.text)

\* anthropicErrorPosRegex = messages\.(\d+)\.content\.(\d+), FindStringSubmatch:
\* the leftmost match, each \d+ taking the whole run of digits.
MatchesAt(msg, i) ==
    /\ SubSeq(msg, i, i + 8) = "messages."
    /\ DigitRun(msg, i + 9) >= 1
    /\ LET k == i + 9 + DigitRun(msg, i + 9)
       IN  /\ SubSeq(msg, k, k + 8) = ".content."
           /\ DigitRun(msg, k + 9) >= 1

\* Variant: the rightmost match is taken.
anthropicErrorPosRegexLastMatch(msg) ==
    LET starts == {i \in 1..Len(msg) : i + 8 <= Len(msg) /\ MatchesAt(msg, i)}
    IN  IF starts = {} THEN [ok |-> FALSE, msgIndex |-> 0, partIndex |-> 0]
        ELSE LET i  == CHOOSE x \in starts : \A y \in starts : x >= y
                 d1 == DigitRun(msg, i + 9)
                 k  == i + 9 + d1
                 d2 == DigitRun(msg, k + 9)
             IN  [ok        |-> TRUE,
                  msgIndex  |-> Atoi(SubSeq(msg, i + 9, i + 8 + d1)),
                  partIndex |-> Atoi(SubSeq(msg, k + 9, k + 8 + d2))]

anthropicErrorPosRegex(msg) ==
    LET starts == {i \in 1..Len(msg) : i + 8 <= Len(msg) /\ MatchesAt(msg, i)}
    IN  IF starts = {} THEN [ok |-> FALSE, msgIndex |-> 0, partIndex |-> 0]
        ELSE LET i  == CHOOSE x \in starts : \A y \in starts : x <= y
                 d1 == DigitRun(msg, i + 9)
                 k  == i + 9 + d1
                 d2 == DigitRun(msg, k + 9)
             IN  [ok        |-> TRUE,
                  msgIndex  |-> Atoi(SubSeq(msg, i + 9, i + 8 + d1)),
                  partIndex |-> Atoi(SubSeq(msg, k + 9, k + 8 + d2))]

extractInvalidThinkingPath(errBody) == anthropicErrorPosRegex(extractErrorMessage(errBody))

extractAntigravityInvalidThinkingPath(errBody) ==
    anthropicErrorPosRegex(extractAntigravityErrorMessage(errBody))

----------------------------------------------------------------------------
(* Request payloads: {"messages":[{"role":..,"content": string | [block..]}]}. *)
(* A JSON object is a record that holds the fields the object has; a       *)
(* content that is a string is [str |-> ..], one that is an array is        *)
(* [arr |-> <<..>>]; message and block indexes are 0-based as in the paths. *)

\* thinkingPlaceholder
PlaceholderText == "[Previous thinking omitted due to invalid signature]"
\* Variant: the placeholder is itself a block of type thinking.
thinkingPlaceholderOfTypeThinking == [type |-> "thinking", thinking |-> PlaceholderText]
thinkingPlaceholder == [type |-> "text", text |-> PlaceholderText]

Thinking(text, sig) == [type |-> "thinking", thinking |-> text, signature |-> sig]
UnsignedThinking(text) == [type |-> "thinking", thinking |-> text]
Text(text) == [type |-> "text", text |-> text]
Redacted(data) == [type |-> "redacted_thinking", data |-> data]
SignedToolUse(name, sig) == [type |-> "tool_use", name |-> name, signature |-> sig]

UserSays(text) == [role |-> "user", content |-> [str |-> text]]
UserBlocks(blocks) == [role |-> "user", content |-> [arr |-> blocks]]
Assistant(blocks) == [role |-> "assistant", content |-> [arr |-> blocks]]
AssistantSays(text) == [role |-> "assistant", content |-> [str |-> text]]

\* len(payload) = 0
NoBytes == [empty |-> TRUE]

\* Two signed thinking blocks in one assistant turn.
PayloadTwoSigs ==
    [messages |-> <<UserSays("hello"),
                    Assistant(<<Thinking("t1", "g1"), Thinking("t2", "g2"), Text("OK")>>)>>]
\* A thinking block without signature, and a signature on a block that is no thinking block.
PayloadOddSigs ==
    [messages |-> <<UserSays("hello"),
                    Assistant(<<UnsignedThinking("t3"), SignedToolUse("f", "g2"), Thinking("t1", "g1")>>)>>]
\* No user message: no session.
PayloadNoUser ==
    [messages |-> <<AssistantSays("hi"), Assistant(<<Thinking("t1", "g1"), Text("OK")>>)>>]
\* Another conversation that carries the same signature.
PayloadOtherSession ==
    [messages |-> <<UserSays("bye"),
                    Assistant(<<Thinking("t1", "g1"), Redacted("x")>>)>>]
\* The first user turn given as content blocks.
PayloadStructuredUser ==
    [messages |-> <<UserBlocks(<<Text("hello")>>),
                    Assistant(<<Thinking("t1", "g1"), Text("OK")>>)>>]
\* "messages" is no array.
PayloadNoMessages == [model |-> "claude"]

\* The first user turn given as two content blocks, the first with the text "hello".
PayloadStructuredTwoParts ==
    [messages |-> <<UserBlocks(<<Text("hello"), Text("more")>>),
                    Assistant(<<Thinking("t1", "g1"), Text("OK")>>)>>]
\* The only user turn holds an image and no text.
PayloadImageUser ==
    [messages |-> <<UserBlocks(<<[type |-> "image"]>>),
                    Assistant(<<Thinking("t1", "g1"), Text("OK")>>)>>]
\* The first user turn is an empty string, a later one says "hello".
PayloadLateUser ==
    [messages |-> <<UserSays(""), AssistantSays("hi"), UserSays("hello")>>]

Payloads == {PayloadTwoSigs, PayloadOddSigs, PayloadNoUser, PayloadOtherSession,
             PayloadStructuredUser, PayloadNoMessages}

Signatures == {"g1", "g2"}

\* gjson: messages.IsArray()
MessagesIsArray(payload) == "messages" \in DOMAIN payload
ContentIsArray(msg) == "content" \in DOMAIN msg /\ "arr" \in DOMAIN msg.content

\* part.Get(field).String(): "" for a field the object does not have
BlockType(part) == IF "type" \in DOMAIN part THEN part.type ELSE ""
BlockSignature(part) == IF "signature" \in DOMAIN part THEN part.signature ELSE ""
BlockTextField(part) == IF "text" \in DOMAIN part THEN part.text ELSE ""

\* gjson.GetBytes(payload, "messages.<i>.content.<j>.signature").String()
GjsonSignatureAt(payload, msgIndex, partIndex) ==
    IF /\ MessagesIsArray(payload)
       /\ msgIndex + 1 \in DOMAIN payload.messages
       /\ ContentIsArray(payload.messages[msgIndex + 1])
       /\ partIndex + 1 \in DOMAIN payload.messages[msgIndex + 1].content.arr
    THEN BlockSignature(payload.messages[msgIndex + 1].content.arr[partIndex + 1])
    ELSE ""

\* Variant: the write replaces the content array of the message by the one block.
SjsonSetContent(payload, msgIndex, partIndex, raw) ==
    [payload EXCEPT !.messages[msgIndex + 1].content.arr = <<raw>>]

\* sjson.SetRawBytes(payload, "messages.<i>.content.<j>", raw)
SjsonSetBlock(payload, msgIndex, partIndex, raw) ==
    [payload EXCEPT !.messages[msgIndex + 1].content.arr[partIndex + 1] = raw]

\* The raw JSON of a content array, for the blocks a user turn holds.
RawBlock(part) ==
    IF BlockType(part) = "text"
    THEN "{\"type\":\"text\",\"text\":\"" \o JsonEscape(part.text) \o "\"}"
    ELSE "{\"type\":\"" \o BlockType(part) \o "\"}"

RECURSIVE RawBlocks(_)
RawBlocks(blocks) ==
    IF Len(blocks) = 0 THEN ""
    ELSE IF Len(blocks) = 1 THEN RawBlock(blocks[1])
    ELSE RawBlock(blocks[1]) \o "," \o RawBlocks(Tail(blocks))

\* msg.Get("content").String(): the string itself, the raw JSON of an array, "" if absent
ContentString(msg) ==
    IF "content" \notin DOMAIN msg THEN ""
    ELSE IF "arr" \in DOMAIN msg.content THEN "[" \o RawBlocks(msg.content.arr) \o "]"
    ELSE msg.content.str

\* msg.Get("content.0.text").String()
ContentZeroText(msg) ==
    IF ContentIsArray(msg) /\ Len(msg.content.arr) >= 1
    THEN BlockTextField(msg.content.arr[1]) ELSE ""

\* hex.EncodeToString(sha256.Sum256(content)[:16]), for the contents in play
Sha256Hex16(content) ==
    CASE content = "hello" -> "2cf24dba5fb0a30e26e83b2ac5b9e29e"
      [] content = "bye" -> "b49f425a7e1f9cff3856329ada223f2f"
      [] content = "[{\"type\":\"text\",\"text\":\"hello\"}]" -> "0f0fe295ef4aae213788b9539dad9a4f"
      [] content = "[{\"type\":\"text\",\"text\":\"hello\"},{\"type\":\"text\",\"text\":\"more\"}]"
            -> "12f9d42d25ea74140932d1b0d025f206"
      [] content = "[{\"type\":\"image\"}]" -> "1095aae7eb0014b433fed60b277d3537"

RECURSIVE DeriveFrom(_, _)
DeriveFrom(messages, k) ==
    IF k > Len(messages) THEN ""
    ELSE LET msg     == messages[k]
             role    == IF "role" \in DOMAIN msg THEN msg.role ELSE ""
             content == IF ContentString(msg) = "" THEN ContentZeroText(msg)
                        ELSE ContentString(msg)
         IN  IF role = "user" /\ content # "" THEN Sha256Hex16(content)
             ELSE DeriveFrom(messages, k + 1)

deriveSessionIDFromClaudeMessages(body) ==
    IF ~MessagesIsArray(body) THEN "" ELSE DeriveFrom(body.messages, 1)

SessionIDs == {deriveSessionIDFromClaudeMessages(p) : p \in Payloads} \ {""}

----------------------------------------------------------------------------
(* The invalid-signature cache (internal/cache/invalid_signature_cache.go). *)
(* c is the sync.Map: a function from the session ids that have a partition *)
(* to that partition's entries, a function from signatures to record times. *)

EmptyMap == [x \in {} |-> 0]

getOrCreateInvalidSession(c, sessionID) ==
    IF sessionID \in DOMAIN c THEN c ELSE (sessionID :> EmptyMap) @@ c

\* Variant: the record is written only to a session that has a partition already.
CacheInvalidSignatureOnExistingSession(c, sessionID, signature, t) ==
    IF sessionID = "" \/ signature = "" \/ sessionID \notin DOMAIN c THEN c
    ELSE [c EXCEPT ![sessionID] = (signature :> t) @@ c[sessionID]]

\* Variant: empty arguments are recorded like any other.
CacheInvalidSignatureUnchecked(c, sessionID, signature, t) ==
    LET c1 == getOrCreateInvalidSession(c, sessionID)
    IN  [c1 EXCEPT ![sessionID] = (signature :> t) @@ c1[sessionID]]

\* Variant: a signature that is present keeps the time of its first record.
CacheInvalidSignatureKeepingFirst(c, sessionID, signature, t) ==
    IF sessionID = "" \/ signature = "" THEN c
    ELSE LET c1 == getOrCreateInvalidSession(c, sessionID)
         IN  [c1 EXCEPT ![sessionID] = c1[sessionID] @@ (signature :> t)]

CacheInvalidSignature(c, sessionID, signature, t) ==
    IF sessionID = "" \/ signature = "" THEN c
    ELSE LET c1 == getOrCreateInvalidSession(c, sessionID)
         IN  [c1 EXCEPT ![sessionID] = (signature :> t) @@ c1[sessionID]]

\* Variant: an entry of age exactly TTL counts as expired.
IsInvalidSignatureExpiringEarly(c, sessionID, signature, t) ==
    IF sessionID = "" \/ signature = "" THEN FALSE
    ELSE IF sessionID \notin DOMAIN c THEN FALSE
    ELSE /\ signature \in DOMAIN c[sessionID]
         /\ t - c[sessionID][signature] < InvalidSignatureCacheTTL

IsInvalidSignature(c, sessionID, signature, t) ==
    IF sessionID = "" \/ signature = "" THEN FALSE
    ELSE IF sessionID \notin DOMAIN c THEN FALSE
    ELSE /\ signature \in DOMAIN c[sessionID]
         /\ t - c[sessionID][signature] <= InvalidSignatureCacheTTL

\* Variant: the empty session id clears nothing.
ClearInvalidSignatureCacheNamedOnly(c, sessionID) ==
    [s \in DOMAIN c \ {sessionID} |-> c[s]]

\* Variant: every call clears every session.
ClearInvalidSignatureCacheEverySession(c, sessionID) ==
    [s \in {} |-> EmptyMap]

ClearInvalidSignatureCache(c, sessionID) ==
    IF sessionID # "" THEN [s \in DOMAIN c \ {sessionID} |-> c[s]]
    ELSE [s \in {} |-> EmptyMap]

\* Variant: the sweep drops an entry as soon as its age reaches the TTL.
purgeExpiredInvalidSignaturesAtTTL(c, key, t) ==
    LET kept == {sig \in DOMAIN c[key] : ~(t - c[key][sig] >= InvalidSignatureCacheTTL)}
    IN  [c EXCEPT ![key] = [sig \in kept |-> c[key][sig]]]

\* Variant: the sweep leaves every entry where it is.
purgeExpiredInvalidSignaturesKeepingAll(c, key, t) == c

\* The sweep visits session key under the session's lock: the expired entries go,
\* and the session is left in the map, empty or not.
purgeExpiredInvalidSignatures(c, key, t) ==
    LET kept == {sig \in DOMAIN c[key] : ~(t - c[key][sig] > InvalidSignatureCacheTTL)}
    IN  [c EXCEPT ![key] = [sig \in kept |-> c[key][sig]]]

\* The sweep, the lock released, deletes the key of a session it found empty.
purgeDeleteSession(c, key) == [s \in DOMAIN c \ {key} |-> c[s]]

\* What the callback of Range does with one key when nothing runs between its steps.
purgeVisitAndDelete(c, key, t) ==
    IF DOMAIN purgeExpiredInvalidSignatures(c, key, t)[key] = {}
    THEN purgeDeleteSession(c, key)
    ELSE purgeExpiredInvalidSignatures(c, key, t)

\* invalidSignatureCache.Range over keys: a pass of the sweep that runs alone.
RECURSIVE purgeRange(_, _, _)
purgeRange(c, keys, t) ==
    IF keys = {} THEN c
    ELSE LET key == CHOOSE k \in keys : TRUE
         IN  purgeRange(purgeVisitAndDelete(c, key, t), keys \ {key}, t)

----------------------------------------------------------------------------
(* Payload sanitizers.  The predicate handed to replaceThinkingBlocks is    *)
(* given by nilPredicate (shouldReplace == nil) and, when it is not nil, by  *)
(* the set of signatures it accepts.                                       *)

\* content.ForEach over the parts from index partIndex on
RECURSIVE ReplaceParts(_, _, _, _, _, _)
ReplaceParts(acc, parts, msgIndex, partIndex, nilPredicate, accepted) ==
    IF partIndex >= Len(parts) THEN acc
    ELSE LET part == parts[partIndex + 1]
             hit  == /\ BlockType(part) = "thinking"
                     /\ (nilPredicate \/ BlockSignature(part) \in accepted)
             next == IF hit
                     THEN [payload |-> SjsonSetBlock(acc.payload, msgIndex, partIndex, thinkingPlaceholder),
                           changed |-> TRUE]
                     ELSE acc
         IN  ReplaceParts(next, parts, msgIndex, partIndex + 1, nilPredicate, accepted)

\* messages.ForEach over the messages from index msgIndex on
RECURSIVE ReplaceMessages(_, _, _, _, _)
ReplaceMessages(acc, messages, msgIndex, nilPredicate, accepted) ==
    IF msgIndex >= Len(messages) THEN acc
    ELSE LET msg  == messages[msgIndex + 1]
             next == IF ContentIsArray(msg)
                     THEN ReplaceParts(acc, msg.content.arr, msgIndex, 0, nilPredicate, accepted)
                     ELSE acc
         IN  ReplaceMessages(next, messages, msgIndex + 1, nilPredicate, accepted)

\* Variant: the predicate is not asked.
replaceThinkingBlocksIgnoringPredicate(payload, nilPredicate, accepted) ==
    IF ~MessagesIsArray(payload) THEN [payload |-> payload, changed |-> FALSE]
    ELSE ReplaceMessages([payload |-> payload, changed |-> FALSE], payload.messages, 0,
                         TRUE, accepted)

replaceThinkingBlocks(payload, nilPredicate, accepted) ==
    IF ~MessagesIsArray(payload) THEN [payload |-> payload, changed |-> FALSE]
    ELSE ReplaceMessages([payload |-> payload, changed |-> FALSE], payload.messages, 0,
                         nilPredicate, accepted)

\* The signatures for which func(sig) { sig != "" && cache.IsInvalidSignature(sessionID, sig) } holds
AcceptedByCache(c, sessionID, t) ==
    {sig \in Signatures : sig # "" /\ IsInvalidSignature(c, sessionID, sig, t)}

sanitizeClaudePayloadForInvalidThinking(c, payload, sessionID, t) ==
    IF sessionID = "" THEN [payload |-> payload, changed |-> FALSE]
    ELSE replaceThinkingBlocks(payload, FALSE, AcceptedByCache(c, sessionID, t))

stripClaudeThinkingBlocksForRetry(payload) == replaceThinkingBlocks(payload, TRUE, {})

\* Variant: changed is reported whenever messages is an array.
replaceAntigravityThinkingBlocksAlwaysChanged(payload, nilPredicate, accepted) ==
    IF ~MessagesIsArray(payload) THEN [payload |-> payload, changed |-> FALSE]
    ELSE ReplaceMessages([payload |-> payload, changed |-> TRUE], payload.messages, 0,
                         nilPredicate, accepted)

replaceAntigravityThinkingBlocks(payload, nilPredicate, accepted) ==
    IF ~MessagesIsArray(payload) THEN [payload |-> payload, changed |-> FALSE]
    ELSE ReplaceMessages([payload |-> payload, changed |-> FALSE], payload.messages, 0,
                         nilPredicate, accepted)

\* Variant: the pre-sanitisation replaces nothing.
sanitizeAntigravityNothing(c, payload, sessionID, t) == [payload |-> payload, changed |-> FALSE]

sanitizeAntigravityPayloadForInvalidThinking(c, payload, sessionID, t) ==
    IF sessionID = "" THEN [payload |-> payload, changed |-> FALSE]
    ELSE replaceAntigravityThinkingBlocks(payload, FALSE, AcceptedByCache(c, sessionID, t))

\* Variant: the full strip asks for a signature.
stripAntigravitySignedBlocksOnly(payload) ==
    replaceAntigravityThinkingBlocks(payload, FALSE, Signatures)

stripAntigravityThinkingBlocksForRetry(payload) ==
    replaceAntigravityThinkingBlocks(payload, TRUE, {})

----------------------------------------------------------------------------
(* Recovery helpers.  Each returns what the Go function returns, the cache  *)
(* as the call leaves it, and the blacklist writes it made, in order.       *)

NoWrites == << >>

\* recordInvalidThinkingSignatureFromError, from the extracted path on
recordInvalidThinkingSignatureAt(c, sessionID, sentPayload, path, t) ==
    LET sig == GjsonSignatureAt(sentPayload, path.msgIndex, path.partIndex)
    IN  IF sessionID = "" \/ ~path.ok \/ sig = ""
        THEN [sig |-> "", ok |-> FALSE, cache |-> c, writes |-> NoWrites]
        ELSE [sig |-> sig, ok |-> TRUE,
              cache  |-> CacheInvalidSignature(c, sessionID, sig, t),
              writes |-> << <<sessionID, sig>> >>]

recordInvalidThinkingSignatureFromError(c, sessionID, sentPayload, errBody, t) ==
    recordInvalidThinkingSignatureAt(c, sessionID, sentPayload,
                                     extractInvalidThinkingPath(errBody), t)

\* Variant: the record is made a second time on the way to the retry.
retryClaudePayloadWritingTwice(rec, c, sessionID, payload, t) ==
    [payload     |-> IF rec.ok
                     THEN sanitizeClaudePayloadForInvalidThinking(rec.cache, payload, sessionID, t).payload
                     ELSE stripClaudeThinkingBlocksForRetry(payload).payload,
     shouldRetry |-> TRUE,
     cache       |-> rec.cache,
     writes      |-> rec.writes \o rec.writes]

\* handleThinkingErrorRecovery, from the outcome rec of the record on
retryClaudePayload(rec, c, sessionID, payload, t) ==
    [payload     |-> IF rec.ok
                     THEN sanitizeClaudePayloadForInvalidThinking(rec.cache, payload, sessionID, t).payload
                     ELSE stripClaudeThinkingBlocksForRetry(payload).payload,
     shouldRetry |-> TRUE,
     cache       |-> rec.cache,
     writes      |-> rec.writes]

handleThinkingErrorRecovery(c, sessionID, payload, errBody, statusCode, t) ==
    IF ~isClaudeThinkingInvalidSignatureError(statusCode, errBody)
    THEN [payload |-> payload, shouldRetry |-> FALSE, cache |-> c, writes |-> NoWrites]
    ELSE retryClaudePayload(recordInvalidThinkingSignatureFromError(c, sessionID, payload, errBody, t),
                            c, sessionID, payload, t)

\* recordAntigravityInvalidSignature, from the extracted path on
recordAntigravityInvalidSignatureAt(c, sessionID, originalPayload, path, t) ==
    LET sig == GjsonSignatureAt(originalPayload, path.msgIndex, path.partIndex)
    IN  IF sessionID = "" \/ ~path.ok \/ sig = ""
        THEN [sig |-> "", ok |-> FALSE, cache |-> c, writes |-> NoWrites]
        ELSE [sig |-> sig, ok |-> TRUE,
              cache  |-> CacheInvalidSignature(c, sessionID, sig, t),
              writes |-> << <<sessionID, sig>> >>]

recordAntigravityInvalidSignature(c, sessionID, originalPayload, errBody, t) ==
    recordAntigravityInvalidSignatureAt(c, sessionID, originalPayload,
                                        extractAntigravityInvalidThinkingPath(errBody), t)

\* Variant: the retry payload is the full strip whatever was recorded.
retryAntigravityPayloadAlwaysFull(rec, c, sessionID, originalPayload, t) ==
    [payload     |-> stripAntigravityThinkingBlocksForRetry(originalPayload).payload,
     shouldRetry |-> TRUE,
     cache       |-> rec.cache,
     writes      |-> rec.writes]

\* handleAntigravityThinkingErrorRecovery, from the outcome rec of the record on
retryAntigravityPayload(rec, c, sessionID, originalPayload, t) ==
    [payload     |-> IF rec.ok
                     THEN sanitizeAntigravityPayloadForInvalidThinking(rec.cache, originalPayload, sessionID, t).payload
                     ELSE stripAntigravityThinkingBlocksForRetry(originalPayload).payload,
     shouldRetry |-> TRUE,
     cache       |-> rec.cache,
     writes      |-> rec.writes]

\* Variant: the signature at the coordinate is recorded before the error is classified.
handleAntigravityRecordingFirst(c, sessionID, originalPayload, errBody, statusCode, t) ==
    LET rec == recordAntigravityInvalidSignature(c, sessionID, originalPayload, errBody, t)
    IN  IF ~isAntigravityThinkingSignatureError(statusCode, errBody)
        THEN [payload |-> originalPayload, shouldRetry |-> FALSE,
              cache |-> rec.cache, writes |-> rec.writes]
        ELSE retryAntigravityPayload(rec, c, sessionID, originalPayload, t)

handleAntigravityThinkingErrorRecovery(c, sessionID, originalPayload, errBody, statusCode, t) ==
    IF ~isAntigravityThinkingSignatureError(statusCode, errBody)
    THEN [payload |-> originalPayload, shouldRetry |-> FALSE, cache |-> c, writes |-> NoWrites]
    ELSE retryAntigravityPayload(recordAntigravityInvalidSignature(c, sessionID, originalPayload, errBody, t),
                                 c, sessionID, originalPayload, t)

----------------------------------------------------------------------------
(* What the upstream (or the network, or the caller's context) answers to   *)
(* one attempt.                                                            *)

NoBody == ""
OkBody == "{\"type\":\"message\"}"

NoAnswer       == [kind |-> "none", code |-> 0, body |-> NoBody, readErr |-> FALSE]
Response(code, body) == [kind |-> "response", code |-> code, body |-> body, readErr |-> FALSE]
\* a network failure, and context.Canceled / context.DeadlineExceeded
TransportError == [kind |-> "transport", code |-> 0, body |-> NoBody, readErr |-> FALSE]
Canceled       == [kind |-> "canceled", code |-> 0, body |-> NoBody, readErr |-> FALSE]
\* the response's status line has arrived and reading its body fails
BrokenBody(code, body) == [kind |-> "response", code |-> code, body |-> body, readErr |-> TRUE]

BodyCoord10    == BytesOfDoc[FlatDoc(MsgCoord10)]
BodyCoord11    == BytesOfDoc[AnthropicDoc(MsgCoord11)]
BodyNested     == BytesOfDoc[RpcDoc(AnthropicDoc(MsgQuoted))]
BodyNoCoord    == MsgNoCoord
BodyOutOfRange == BytesOfDoc[FlatDoc(MsgCoord70)]
BodyUnrelated  == BytesOfDoc[TopDoc(MsgUnrelated)]

ErrorBodies == {BodyCoord10, BodyCoord11, BodyNested, BodyNoCoord, BodyOutOfRange, BodyUnrelated}

FirstAnswers ==
    {Response(200, OkBody), TransportError, Canceled, Response(401, BodyCoord10),
     BrokenBody(400, BodyUnrelated)}
        \cup {Response(400, b) : b \in ErrorBodies}

SecondAnswers ==
    {Response(200, OkBody), Canceled, Response(400, BodyCoord10)}

\* err == nil
IsSuccess(ans) == ans.kind = "response" /\ ans.code = 200
\* err.(statusErr): the inner executor turns an upstream error status into a statusErr
IsStatusErr(ans) == ans.kind = "response" /\ ans.code # 200

----------------------------------------------------------------------------
(* The recovery wrappers.  A wrapper is cut where it calls the upstream:    *)
(* ...Begin runs up to the first call, ...First handles the first answer,   *)
(* ...Second the answer to the retry.  A step returns                       *)
(*   retry: another upstream call is made, with payload;                    *)
(*   result: what the caller receives (when retry is FALSE);                *)
(*   cache, writes: as for the helpers.                                     *)

Return(ans, c) == [retry |-> FALSE, result |-> ans, payload |-> NoBytes, cache |-> c, writes |-> NoWrites]

\* if shouldRetry { call the upstream again with the new payload } else { return the first outcome }
RetryOrReturn(h, ans) ==
    [retry   |-> h.shouldRetry,
     result  |-> IF h.shouldRetry THEN NoAnswer ELSE ans,
     payload |-> IF h.shouldRetry THEN h.payload ELSE NoBytes,
     cache   |-> h.cache,
     writes  |-> h.writes]

\* executeClaudeNonStreamWithRecovery, up to the first executeClaudeNonStream
executeClaudeNonStreamWithRecoveryBegin(c, reqPayload, optsOriginalRequest, t) ==
    LET originalPayload == IF optsOriginalRequest # NoBytes THEN optsOriginalRequest ELSE reqPayload
        sessionID       == deriveSessionIDFromClaudeMessages(originalPayload)
        sanitized       == sanitizeAntigravityPayloadForInvalidThinking(c, originalPayload, sessionID, t)
    IN  [sessionID       |-> sessionID,
         recoveryPayload |-> originalPayload,
         payload         |-> IF sanitized.changed THEN sanitized.payload ELSE reqPayload,
         wrapped         |-> TRUE,
         cache           |-> c,
         writes          |-> NoWrites]

\* Variant: any failure of the first attempt is retried with the full strip.
NonStreamFirstRetryingAnyError(c, q, ans, t) ==
    IF IsSuccess(ans) THEN Return(ans, c)
    ELSE IF ~IsStatusErr(ans)
    THEN [retry |-> TRUE, result |-> NoAnswer,
          payload |-> stripAntigravityThinkingBlocksForRetry(q.recoveryPayload).payload,
          cache |-> c, writes |-> NoWrites]
    ELSE RetryOrReturn(handleAntigravityThinkingErrorRecovery(c, q.sessionID, q.recoveryPayload,
                                                              ans.body, ans.code, t), ans)

executeClaudeNonStreamWithRecoveryFirst(c, q, ans, t) ==
    IF IsSuccess(ans) THEN Return(ans, c)
    ELSE IF ~IsStatusErr(ans) THEN Return(ans, c)
    ELSE RetryOrReturn(handleAntigravityThinkingErrorRecovery(c, q.sessionID, q.recoveryPayload,
                                                              ans.body, ans.code, t), ans)

\* return e.executeClaudeNonStream(ctx, auth, req, opts)
executeClaudeNonStreamWithRecoverySecond(c, q, ans, t) == Return(ans, c)

\* executeClaudeStreamWithRecovery, up to the first executeStreamInternal
executeClaudeStreamWithRecoveryBegin(c, reqPayload, optsOriginalRequest, t) ==
    LET originalPayload == IF optsOriginalRequest # NoBytes THEN optsOriginalRequest ELSE reqPayload
        sessionID       == deriveSessionIDFromClaudeMessages(originalPayload)
        sanitized       == sanitizeAntigravityPayloadForInvalidThinking(c, originalPayload, sessionID, t)
    IN  [sessionID       |-> sessionID,
         recoveryPayload |-> originalPayload,
         payload         |-> IF sanitized.changed THEN sanitized.payload ELSE reqPayload,
         wrapped         |-> TRUE,
         cache           |-> c,
         writes          |-> NoWrites]

executeClaudeStreamWithRecoveryFirst(c, q, ans, t) ==
    IF IsSuccess(ans) THEN Return(ans, c)
    ELSE IF ~IsStatusErr(ans) THEN Return(ans, c)
    ELSE RetryOrReturn(handleAntigravityThinkingErrorRecovery(c, q.sessionID, q.recoveryPayload,
                                                              ans.body, ans.code, t), ans)

\* Variant: a failed retry is answered with the failure of the first attempt.
StreamSecondKeepingFirstFailure(c, q, ans, t) ==
    IF IsSuccess(ans) THEN Return(ans, c) ELSE Return(q.answers[1], c)

\* return e.executeStreamInternal(ctx, auth, req, opts)
executeClaudeStreamWithRecoverySecond(c, q, ans, t) == Return(ans, c)

\* claudeThinkingPreRequest (a sanitized payload is never of length 0)
claudeThinkingPreRequest(c, bodyForUpstream, bodyForTranslation, t) ==
    LET sessionID == deriveSessionIDFromClaudeMessages(bodyForTranslation)
        sanitized == sanitizeClaudePayloadForInvalidThinking(c, bodyForUpstream, sessionID, t)
    IN  IF sessionID = "" THEN [sessionID |-> "", sanitizedPayload |-> bodyForUpstream]
        ELSE IF sanitized.payload = NoBytes
        THEN [sessionID |-> sessionID, sanitizedPayload |-> bodyForUpstream]
        ELSE [sessionID |-> sessionID, sanitizedPayload |-> sanitized.payload]

\* wrapHTTPClientWithThinkingRecovery: the client is wrapped unless the session id is empty
wrapHTTPClientWithThinkingRecovery(sessionID) == sessionID # ""

\* The Claude executor's hook: the pre-request, then the request is sent with the
\* sanitized body through the wrapped client, which keeps the body it sends.
claudeExecutorBegin(c, reqPayload, optsOriginalRequest, t) ==
    LET pre == claudeThinkingPreRequest(c, reqPayload, reqPayload, t)
    IN  [sessionID       |-> pre.sessionID,
         recoveryPayload |-> pre.sanitizedPayload,
         payload         |-> pre.sanitizedPayload,
         wrapped         |-> wrapHTTPClientWithThinkingRecovery(pre.sessionID),
         cache           |-> c,
         writes          |-> NoWrites]

\* claudeThinkingRecoveryTransport.RoundTrip, from the first base.RoundTrip on
RoundTripFirst(c, q, ans, t) ==
    IF ~q.messagesPath THEN Return(ans, c)
    ELSE IF ans.kind # "response" THEN Return(ans, c)
    ELSE IF ans.code # StatusBadRequest THEN Return(ans, c)
    ELSE IF ans.readErr THEN Return(Response(ans.code, NoBody), c)
    ELSE RetryOrReturn(handleThinkingErrorRecovery(c, q.sessionID, q.recoveryPayload,
                                                   ans.body, ans.code, t),
                       Response(ans.code, ans.body))

\* Variant: the answer to the retry goes through the recovery again.
RoundTripSecondRecovering(c, q, ans, t) == RoundTripFirst(c, q, ans, t)

\* return t.base.RoundTrip(retryReq)
RoundTripSecond(c, q, ans, t) == Return(ans, c)

\* The client the Claude executor sends with: the recovery transport, or the base
\* transport alone when the client was not wrapped.
ClaudeClientFirst(c, q, ans, t) ==
    IF q.wrapped THEN RoundTripFirst(c, q, ans, t) ELSE Return(ans, c)

Wrappers == {"nonstream", "stream", "transport"}

Begin(w, c, reqPayload, optsOriginalRequest, t) ==
    CASE w = "nonstream" -> executeClaudeNonStreamWithRecoveryBegin(c, reqPayload, optsOriginalRequest, t)
      [] w = "stream"    -> executeClaudeStreamWithRecoveryBegin(c, reqPayload, optsOriginalRequest, t)
      [] w = "transport" -> claudeExecutorBegin(c, reqPayload, optsOriginalRequest, t)

First(w, c, q, ans, t) ==
    CASE w = "nonstream" -> executeClaudeNonStreamWithRecoveryFirst(c, q, ans, t)
      [] w = "stream"    -> executeClaudeStreamWithRecoveryFirst(c, q, ans, t)
      [] w = "transport" -> ClaudeClientFirst(c, q, ans, t)

Second(w, c, q, ans, t) ==
    CASE w = "nonstream" -> executeClaudeNonStreamWithRecoverySecond(c, q, ans, t)
      [] w = "stream"    -> executeClaudeStreamWithRecoverySecond(c, q, ans, t)
      [] w = "transport" -> RoundTripSecond(c, q, ans, t)

\* The classifier and the coordinate extraction the wrapper's recovery uses, tabulated
\* over the answers and bodies in play.
Answers == FirstAnswers \cup SecondAnswers

ClassifiedTable ==
    [w \in Wrappers |->
        [ans \in Answers |->
            /\ ans.kind = "response" /\ ~ans.readErr
            /\ IF w = "transport" THEN isClaudeThinkingInvalidSignatureError(ans.code, ans.body)
               ELSE isAntigravityThinkingSignatureError(ans.code, ans.body)]]

ClassifiedBy(w, ans) == ClassifiedTable[w][ans]

PathTable ==
    [w \in Wrappers |->
        [body \in ErrorBodies \cup {OkBody, NoBody} |->
            IF w = "transport" THEN extractInvalidThinkingPath(body)
            ELSE extractAntigravityInvalidThinkingPath(body)]]

PathBy(w, body) == PathTable[w][body]

----------------------------------------------------------------------------
(* The system: requests run through a wrapper while time passes, the sweep  *)
(* runs and sessions are cleared.                                          *)

Reqs == {"r1"}

\* The payloads callers send through the wrappers.
RequestPayloads == {PayloadTwoSigs, PayloadOddSigs, PayloadNoUser, PayloadOtherSession}

RequestSessions == {deriveSessionIDFromClaudeMessages(p) : p \in RequestPayloads}

\* No direct call has been made.
NoCall == [op |-> "none"]

IdleReq ==
    [wrapper         |-> "",
     messagesPath    |-> FALSE,      \* the URL path holds /v1/messages (transport)
     wrapped         |-> FALSE,
     originalPayload |-> NoBytes,    \* the caller's payload
     sessionID       |-> "",
     recoveryPayload |-> NoBytes,    \* the payload the wrapper hands to the recovery
     sent            |-> << >>,      \* the payloads sent upstream, in order
     answers         |-> << >>,      \* the upstream's answers, in order
     known           |-> << >>,      \* per payload sent: the signatures blacklisted when it was sanitised
     due1            |-> {},         \* signatures recorded for the session, within TTL, no clear since
     result          |-> NoAnswer]

\* The goroutines that run the cache's functions: two callers, and the goroutine
\* startInvalidSignatureCleanup starts.
Callers == {"c1", "c2"}
Sweeper == "sweeper"
Goroutines == Callers \cup {Sweeper}

\* No call, or no record, that the two callers raced for.
NoRecord == [session |-> "", signature |-> "", fresh |-> FALSE]

\* A goroutine that runs none of the cache's functions.
IdleGoroutine ==
    [pc        |-> "idle",   \* the line the goroutine stands before
     op        |-> "",       \* the function it runs
     session   |-> "",       \* sessionID, or the key of the Range callback
     signature |-> "",
     sc        |-> 0,        \* the address of the partition it works on
     todo      |-> {},       \* the keys Range has still to visit
     t         |-> 0,        \* now := time.Now() of the sweep's pass
     fresh     |-> FALSE,    \* history: the session had no partition when the call began
     overlap   |-> FALSE,    \* history: the other caller recorded for the session meanwhile
     last      |-> NoRecord] \* history: the record it returned from, if that one overlapped

Init ==
    /\ invalidSignatureCache = EmptyMap
    /\ heap = EmptyMap
    /\ goroutines = [g \in Goroutines |-> IdleGoroutine]
    /\ cache = EmptyMap
    /\ cleanupStarted = FALSE
    /\ sweeping = {}
    /\ now = 0
    /\ recorded = EmptyMap
    /\ pc = [r \in Reqs |-> "idle"]
    /\ req = [r \in Reqs |-> IdleReq]
    /\ journal = [r \in Reqs |-> << >>]
    /\ call = NoCall

\* The events of a request: <<"send">>, <<"recv">>, and <<"write", s, g>> for a
\* blacklist write.
SendEvent == <<"send">>
RecvEvent == <<"recv">>

RECURSIVE WriteEvents(_)
WriteEvents(writes) ==
    IF writes = << >> THEN << >>
    ELSE << <<"write", writes[1][1], writes[1][2]>> >> \o WriteEvents(Tail(writes))

\* The history of the records: the time of the last one.
RECURSIVE Note(_, _, _)
Note(rec, writes, t) ==
    IF writes = << >> THEN rec
    ELSE Note((writes[1] :> t) @@ rec, Tail(writes), t)

\* A request enters a wrapper, which runs up to its first upstream call.
Start(r, w, p, o, m) ==
    /\ pc[r] = "idle"
    /\ w # "transport" => m
    /\ w = "transport" => o = NoBytes
    /\ \E b \in {Begin(w, cache, p, o, now)} :
         \E q \in {[IdleReq EXCEPT
                    !.wrapper = w, !.messagesPath = m, !.wrapped = b.wrapped,
                    !.originalPayload = IF o # NoBytes THEN o ELSE p,
                    !.sessionID = b.sessionID, !.recoveryPayload = b.recoveryPayload,
                    !.sent = <<b.payload>>,
                    !.known = <<AcceptedByCache(cache, b.sessionID, now)>>,
                    !.due1 = {g \in Signatures : <<b.sessionID, g>> \in DOMAIN recorded}]} :
           /\ req' = [req EXCEPT ![r] = q]
           /\ cache' = b.cache
           /\ cleanupStarted' = (cleanupStarted \/ b.writes # NoWrites)
           /\ recorded' = Note(recorded, b.writes, now)
           /\ journal' = [journal EXCEPT ![r] = WriteEvents(b.writes) \o <<SendEvent>>]
    /\ pc' = [pc EXCEPT ![r] = "wait1"]
    /\ UNCHANGED <<lockVars, sweeping, now, call>>

\* Applies a step of a wrapper after an answer.
Apply(r, step, ans) ==
    /\ cache' = step.cache
    /\ cleanupStarted' = (cleanupStarted \/ step.writes # NoWrites)
    /\ recorded' = Note(recorded, step.writes, now)
    /\ journal' = [journal EXCEPT ![r] =
                      @ \o <<RecvEvent>> \o WriteEvents(step.writes)
                        \o (IF step.retry THEN <<SendEvent>> ELSE << >>)]
    /\ req' = [req EXCEPT ![r] =
                  [@ EXCEPT !.answers = @ \o <<ans>>,
                            !.sent = IF step.retry THEN @ \o <<step.payload>> ELSE @,
                            !.known = IF step.retry
                                      THEN @ \o <<AcceptedByCache(step.cache, req[r].sessionID, now)>>
                                      ELSE @,
                            !.result = IF step.retry THEN NoAnswer ELSE step.result]]
    /\ pc' = [pc EXCEPT ![r] = IF step.retry THEN "wait2" ELSE "done"]
    /\ UNCHANGED <<lockVars, sweeping, now, call>>

\* The first attempt ends with ans.
Recv1(r, ans) ==
    /\ pc[r] = "wait1"
    /\ ans.readErr => req[r].wrapper = "transport"
    /\ Apply(r, First(req[r].wrapper, cache, req[r], ans, now), ans)

\* The retry ends with ans.
Recv2(r, ans) ==
    /\ pc[r] = "wait2"
    /\ Apply(r, Second(req[r].wrapper, cache, req[r], ans, now), ans)

\* The caller has its result; the next request may come.
Finish(r) ==
    /\ pc[r] = "done"
    /\ pc' = [pc EXCEPT ![r] = "idle"]
    /\ req' = [req EXCEPT ![r] = IdleReq]
    /\ journal' = [journal EXCEPT ![r] = << >>]
    /\ UNCHANGED <<lockVars, cache, cleanupStarted, sweeping, now, recorded, call>>

\* A wrapper is past its recovery step: what is left, the outcome of the retry and
\* the return, reads and writes the request alone, so it commutes with what else
\* happens; the other steps are taken before it or after it.
Returning == \E r \in Reqs : pc[r] \in {"wait2", "done"}

\* An hour passes.
Tick ==
    /\ ~Returning
    /\ now < MaxTime
    /\ now' = now + 1
    /\ recorded' = [k \in {x \in DOMAIN recorded :
                              now' - recorded[x] <= InvalidSignatureCacheTTL} |-> recorded[k]]
    /\ UNCHANGED <<lockVars, cache, cleanupStarted, sweeping, pc, req, journal, call>>

\* The sweep of startInvalidSignatureCleanup comes to session key: it locks the
\* session, drops its expired entries, notes whether it is empty, and unlocks.
SweepVisit(key) ==
    /\ ~Returning
    /\ cleanupStarted
    /\ sweeping = {}
    /\ key \in DOMAIN cache
    /\ cache' = purgeExpiredInvalidSignatures(cache, key, now)
    /\ sweeping' = IF DOMAIN cache'[key] = {} THEN {key} ELSE {}
    /\ UNCHANGED <<lockVars, cleanupStarted, now, recorded, pc, req, journal, call>>

\* The sweep deletes the key of the session it found empty; what was written to the
\* session since the unlock goes with it.
SweepDelete(key) ==
    /\ ~Returning
    /\ key \in sweeping
    /\ cache' = purgeDeleteSession(cache, key)
    /\ sweeping' = {}
    /\ UNCHANGED <<lockVars, cleanupStarted, now, recorded, pc, req, journal, call>>

\* ClearInvalidSignatureCache(sessionID), "" clearing every session.
Clear(sessionID) ==
    /\ ~Returning
    /\ cache' = ClearInvalidSignatureCache(cache, sessionID)
    /\ recorded' = [k \in {x \in DOMAIN recorded : sessionID # "" /\ x[1] # sessionID} |-> recorded[k]]
    /\ UNCHANGED <<lockVars, cleanupStarted, sweeping, now, pc, req, journal, call>>

Next ==
    \/ \E r \in Reqs, w \in Wrappers, p \in RequestPayloads, m \in BOOLEAN :
          \E o \in {NoBytes, p} : Start(r, w, p, o, m)
    \/ \E r \in Reqs, ans \in FirstAnswers : Recv1(r, ans)
    \/ \E r \in Reqs, ans \in SecondAnswers : Recv2(r, ans)
    \/ \E r \in Reqs : Finish(r)
    \/ Tick
    \/ \E s \in RequestSessions : SweepVisit(s)
    \/ \E s \in RequestSessions : SweepDelete(s)
    \/ \E s \in RequestSessions \cup {""} : Clear(s)

Spec == Init /\ [][Next]_vars
----------------------------------------------------------------------------
(* Properties of the retry orchestration.                                   *)

\* The blacklist writes of request r, in order.
Writes(r) == SelectSeq(journal[r], LAMBDA e : e[1] = "write")

\* The kinds of the events of request r, in order.
Kinds(r) == [k \in DOMAIN journal[r] |-> journal[r][k][1]]

IsPrefix(a, b) == Len(a) <= Len(b) /\ a = SubSeq(b, 1, Len(a))

\* Request r runs through the recovery: the transport is in place only for a session
\* id that is not empty, and steps aside for a path other than /v1/messages.
Recovering(r) ==
    req[r].wrapper = "transport" => (req[r].wrapped /\ req[r].messagesPath)

\* The first answer of request r is a signature error for the wrapper that handles r.
FirstClassified(r) ==
    /\ Recovering(r)
    /\ Len(req[r].answers) >= 1
    /\ ClassifiedBy(req[r].wrapper, req[r].answers[1])

\* The positions <<i, j>> of the content blocks of a payload (1-based).
Positions(payload) ==
    IF ~MessagesIsArray(payload) THEN {}
    ELSE {pos \in (DOMAIN payload.messages) \X (1..3) :
            /\ ContentIsArray(payload.messages[pos[1]])
            /\ pos[2] \in DOMAIN payload.messages[pos[1]].content.arr}

BlockAt(payload, pos) == payload.messages[pos[1]].content.arr[pos[2]]

\* The payload carries a thinking block signed g.
HasThinkingWith(payload, g) ==
    \E pos \in Positions(payload) :
        BlockType(BlockAt(payload, pos)) = "thinking" /\ BlockSignature(BlockAt(payload, pos)) = g

\* What a strip has to produce: the thinking blocks that are signed by a member of
\* sigs (all of them, when all holds) are the placeholder, everything else is as before.
Stripped(payload, all, sigs) ==
    IF ~MessagesIsArray(payload) THEN payload
    ELSE [payload EXCEPT !.messages =
            [i \in DOMAIN payload.messages |->
                LET msg == payload.messages[i]
                IN  IF ~ContentIsArray(msg) THEN msg
                    ELSE [msg EXCEPT !.content.arr =
                            [j \in DOMAIN msg.content.arr |->
                                LET part == msg.content.arr[j]
                                IN  IF /\ BlockType(part) = "thinking"
                                       /\ (all \/ BlockSignature(part) \in sigs)
                                    THEN thinkingPlaceholder ELSE part]]]]

\* C1: whatever the upstream answers on either attempt, a request handled by a
\* recovery wrapper issues at most two upstream attempts.
C1_AtMostTwoAttempts == \A r \in Reqs : Len(req[r].sent) <= 2

\* A request whose two attempts both ended with a signature error has returned.
C1_Witness ==
    \E r \in Reqs :
        /\ pc[r] = "done" /\ Len(req[r].sent) = 2 /\ Len(req[r].answers) = 2
        /\ ClassifiedBy(req[r].wrapper, req[r].answers[1])
        /\ ClassifiedBy(req[r].wrapper, req[r].answers[2])

\* C2: when the first attempt's outcome is not a classified signature error, the
\* caller receives that outcome unchanged (same status, same body bytes), no second
\* attempt is issued and no blacklist write is made.
C2_OtherOutcomesPassThrough ==
    \A r \in Reqs :
        (Len(req[r].answers) >= 1 /\ ~FirstClassified(r)) =>
            /\ pc[r] = "done"
            /\ req[r].result = req[r].answers[1]
            /\ Len(req[r].sent) = 1
            /\ Writes(r) = << >>

\* C3: when a second attempt is issued its outcome is what the caller receives,
\* unconditionally: after it there is no blacklist write and no further attempt.
C3_SecondOutcomeIsFinal ==
    \A r \in Reqs :
        Len(req[r].answers) = 2 =>
            /\ pc[r] = "done"
            /\ req[r].result = req[r].answers[2]
            /\ Len(req[r].sent) = 2
            /\ SubSeq(journal[r], Len(journal[r]) - 1, Len(journal[r])) = <<SendEvent, RecvEvent>>

\* A signature error on the second attempt has been returned to the caller.
C3_Witness ==
    \E r \in Reqs :
        /\ pc[r] = "done" /\ Len(req[r].answers) = 2
        /\ ClassifiedBy(req[r].wrapper, req[r].answers[2])
        /\ req[r].result = req[r].answers[2]
        /\ req[r].wrapper = "stream"

\* The coordinate the first answer of request r names, and the signature the payload
\* handed to the recovery holds there.
FirstPath(r) == PathBy(req[r].wrapper, req[r].answers[1].body)

SignatureAtFirstPath(r, payload) ==
    GjsonSignatureAt(payload, FirstPath(r).msgIndex, FirstPath(r).partIndex)

\* The block the coordinate names is a thinking block of the payload.
ThinkingAtFirstPath(r, payload) ==
    /\ <<FirstPath(r).msgIndex + 1, FirstPath(r).partIndex + 1>> \in Positions(payload)
    /\ BlockType(BlockAt(payload, <<FirstPath(r).msgIndex + 1, FirstPath(r).partIndex + 1>>)) = "thinking"

PlaceholderAtFirstPath(r, payload) ==
    /\ <<FirstPath(r).msgIndex + 1, FirstPath(r).partIndex + 1>> \in Positions(payload)
    /\ BlockAt(payload, <<FirstPath(r).msgIndex + 1, FirstPath(r).partIndex + 1>>) = thinkingPlaceholder

C5_RecordedFromSentPayload ==
    \A r \in Reqs :
        (FirstClassified(r) /\ FirstPath(r).ok) =>
            \A k \in DOMAIN Writes(r) :
                /\ SignatureAtFirstPath(r, req[r].sent[1]) # ""
                /\ Writes(r)[k][3] = SignatureAtFirstPath(r, req[r].sent[1])

\* C6: a request writes the blacklist at most once, after the first answer is
\* received and classified and before the second attempt is issued, and issues at
\* most one upstream call beyond the first.
C6_OneWriteBetweenAttempts ==
    \A r \in Reqs :
        /\ \/ IsPrefix(Kinds(r), <<"send", "recv", "write", "send", "recv">>)
           \/ IsPrefix(Kinds(r), <<"send", "recv", "send", "recv">>)
        /\ Writes(r) # << >> => (FirstClassified(r) /\ Len(req[r].sent) = 2)

\* A request has written once between its two attempts and has returned.
C6_Witness ==
    \E r \in Reqs :
        /\ pc[r] = "done" /\ req[r].wrapper = "transport"
        /\ Kinds(r) = <<"send", "recv", "write", "send", "recv">>

\* The step leaves a record of g for session s that was not there, or is newer.
EntryWritten(s, g) ==
    /\ s \in DOMAIN cache' /\ g \in DOMAIN cache'[s]
    /\ ~(s \in DOMAIN cache /\ g \in DOMAIN cache[s] /\ cache[s][g] = cache'[s][g])

\* The step is the recovery of a request of session s after a first answer with status
\* 400 classified as a signature error, and g is the signature at the coordinate the
\* answer names, in the payload of that request handed to the recovery.
RecoveryRecords(r, s, g) ==
    /\ pc[r] = "wait1" /\ pc'[r] = "wait2"
    /\ Recovering(r)
    /\ req'[r].answers[1].code = StatusBadRequest
    /\ ClassifiedBy(req[r].wrapper, req'[r].answers[1])
    /\ req[r].sessionID = s
    /\ deriveSessionIDFromClaudeMessages(req[r].recoveryPayload) = s
    /\ PathBy(req[r].wrapper, req'[r].answers[1].body).ok
    /\ g = GjsonSignatureAt(req[r].recoveryPayload,
                            PathBy(req[r].wrapper, req'[r].answers[1].body).msgIndex,
                            PathBy(req[r].wrapper, req'[r].answers[1].body).partIndex)

\* C7: every blacklist entry (s, g) is written by a recovery step that follows a
\* first answer with status 400 classified as a signature error, g being the signature
\* at the reported coordinate in a payload of session s; no other step (the
\* pre-sanitisation, a read, the handling of another error) adds or renews an entry.
C7_EntriesComeFromRecovery ==
    [][\A s \in RequestSessions, g \in Signatures :
          EntryWritten(s, g) => \E r \in Reqs : RecoveryRecords(r, s, g)]_vars

\* An entry has been written by a recovery and is in the blacklist.
C7_Witness ==
    \E r \in Reqs :
        /\ pc[r] = "wait2" /\ req[r].wrapper = "stream"
        /\ Writes(r) # << >>
        /\ Writes(r)[1][2] \in DOMAIN cache
        /\ Writes(r)[1][3] \in DOMAIN cache[Writes(r)[1][2]]

\* C8: no payload sent upstream for a session, first attempt or retry, holds a
\* thinking block whose signature was blacklisted for the session when the payload
\* was sanitised; where the caller's payload held such a block the payload sent
\* holds the placeholder, which carries the fixed text alone.
C8_NoBlacklistedThinkingSent ==
    \A r \in Reqs : \A k \in DOMAIN req[r].sent :
        /\ \A g \in req[r].known[k] : ~HasThinkingWith(req[r].sent[k], g)
        /\ \A pos \in Positions(req[r].originalPayload) :
              (/\ BlockType(BlockAt(req[r].originalPayload, pos)) = "thinking"
               /\ BlockSignature(BlockAt(req[r].originalPayload, pos)) \in req[r].known[k])
                 => /\ pos \in Positions(req[r].sent[k])
                    /\ BlockAt(req[r].sent[k], pos) = [type |-> "text", text |-> PlaceholderText]

\* A first attempt has been sent whose payload held a blacklisted thinking block.
C8_Witness ==
    \E r \in Reqs : \E g \in Signatures :
        /\ pc[r] = "wait1" /\ req[r].wrapper = "nonstream"
        /\ g \in req[r].known[1]
        /\ HasThinkingWith(req[r].originalPayload, g)
        /\ ~HasThinkingWith(req[r].sent[1], g)

\* The upstream rejects exactly the payloads that carry signature g: the answer to
\* payload is a signature error if a block of it is signed g, a success otherwise.
CarriesSignature(payload, g) ==
    \E pos \in Positions(payload) : BlockSignature(BlockAt(payload, pos)) = g

RejectsExactly(g, w, payload, ans) ==
    IF CarriesSignature(payload, g) THEN ClassifiedBy(w, ans) ELSE IsSuccess(ans)

\* C9: after a recovery has blacklisted g for session s, a later request of s, within
\* TTL and with no clear in between, whose history carries a thinking block signed g
\* sends its first attempt with that block replaced by the placeholder; against an
\* upstream that rejects exactly the payloads carrying g it completes in one call.
C9_KnownSignatureStrippedAtFirstAttempt ==
    \A r \in Reqs : \A g \in req[r].due1 :
        (pc[r] # "idle" /\ HasThinkingWith(req[r].originalPayload, g)) =>
            /\ ~HasThinkingWith(req[r].sent[1], g)
            /\ \A pos \in Positions(req[r].originalPayload) :
                  (/\ BlockType(BlockAt(req[r].originalPayload, pos)) = "thinking"
                   /\ BlockSignature(BlockAt(req[r].originalPayload, pos)) = g)
                     => BlockAt(req[r].sent[1], pos) = thinkingPlaceholder
            /\ (/\ pc[r] = "done"
                /\ RejectsExactly(g, req[r].wrapper, req[r].sent[1], req[r].answers[1]))
                  => (Len(req[r].sent) = 1 /\ IsSuccess(req[r].result))

\* A later request, made when the record is exactly TTL old, has completed in one call.
C9_Witness ==
    \E r \in Reqs : \E g \in req[r].due1 :
        /\ pc[r] = "done" /\ req[r].wrapper = "transport"
        /\ HasThinkingWith(req[r].originalPayload, g)
        /\ RejectsExactly(g, req[r].wrapper, req[r].sent[1], req[r].answers[1])
        /\ Len(req[r].sent) = 1
        /\ <<req[r].sessionID, g>> \in DOMAIN recorded
        /\ now - recorded[<<req[r].sessionID, g>>] = InvalidSignatureCacheTTL

\* C10: an attempt that ends with a transport error or with the cancellation or
\* timeout of the context is the last one: the error is returned as it is, with no
\* further attempt, no recovery and no blacklist write after it.
C10_ErrorsWithoutStatusPassThrough ==
    \A r \in Reqs : \A k \in DOMAIN req[r].answers :
        req[r].answers[k].kind # "response" =>
            /\ pc[r] = "done"
            /\ k = Len(req[r].answers)
            /\ Len(req[r].sent) = k
            /\ req[r].result = req[r].answers[k]
            /\ journal[r][Len(journal[r])] = RecvEvent

\* The retry has been cancelled and the cancellation returned.
C10_Witness ==
    \E r \in Reqs :
        /\ pc[r] = "done" /\ Len(req[r].answers) = 2
        /\ req[r].answers[2] = Canceled
        /\ req[r].result = Canceled

----------------------------------------------------------------------------
(* The cache and the sanitizers called directly, one call at a time, as the *)
(* tests of the packages call them.                                        *)

\* The session ids and signatures handed to the direct calls.
CallSessions == {"test-session", "other-session", ""}
CallSignatures == Signatures \cup {""}

\* The pairs handed to CacheInvalidSignature.
RecordArgs == {<<"test-session", "g1">>, <<"test-session", "g2">>, <<"other-session", "g1">>,
               <<"", "g1">>, <<"test-session", "">>}

\* The payloads handed to the sanitizers.
SanitizedPayloads == {PayloadTwoSigs, PayloadOddSigs, PayloadNoMessages}

\* The pairs that read as blacklisted.
Blacklisted(c, t) ==
    {k \in CallSessions \X CallSignatures : IsInvalidSignature(c, k[1], k[2], t)}

\* CacheInvalidSignature(sessionID, signature) is called and returns.
CallCacheInvalidSignature(sessionID, signature) ==
    /\ cache' = CacheInvalidSignature(cache, sessionID, signature, now)
    /\ cleanupStarted' = (cleanupStarted \/ (sessionID # "" /\ signature # ""))
    /\ recorded' = IF sessionID # "" /\ signature # ""
                   THEN (<<sessionID, signature>> :> now) @@ recorded
                   ELSE recorded
    /\ call' = [op |-> "record", session |-> sessionID, signature |-> signature,
                previous |-> IF sessionID \in DOMAIN cache /\ signature \in DOMAIN cache[sessionID]
                             THEN cache[sessionID][signature] ELSE -1]
    /\ UNCHANGED <<lockVars, sweeping, now, pc, req, journal>>

\* IsInvalidSignature(sessionID, signature) is called and returns.
CallIsInvalidSignature(sessionID, signature) ==
    /\ call' = [op |-> "read", session |-> sessionID, signature |-> signature,
                result |-> IsInvalidSignature(cache, sessionID, signature, now)]
    /\ UNCHANGED <<lockVars, cache, cleanupStarted, sweeping, now, recorded, pc, req, journal>>

\* ClearInvalidSignatureCache(sessionID) is called and returns.
CallClearInvalidSignatureCache(sessionID) ==
    /\ cache' = ClearInvalidSignatureCache(cache, sessionID)
    /\ recorded' = [k \in {x \in DOMAIN recorded : sessionID # "" /\ x[1] # sessionID} |-> recorded[k]]
    /\ call' = [op |-> "clear", session |-> sessionID, before |-> Blacklisted(cache, now)]
    /\ UNCHANGED <<lockVars, cleanupStarted, sweeping, now, pc, req, journal>>

\* purgeExpiredInvalidSignatures() runs from its first line to its last, alone.
CallPurgeExpiredInvalidSignatures ==
    /\ cache' = purgeRange(cache, DOMAIN cache, now)
    /\ call' = [op |-> "sweep", before |-> cache]
    /\ UNCHANGED <<lockVars, cleanupStarted, sweeping, now, recorded, pc, req, journal>>

\* The selective strip of fn: the sanitizer of the Claude or of the Antigravity executor.
SelectiveStrip(fn, payload, sessionID) ==
    IF fn = "claude"
    THEN sanitizeClaudePayloadForInvalidThinking(cache, payload, sessionID, now)
    ELSE sanitizeAntigravityPayloadForInvalidThinking(cache, payload, sessionID, now)

\* The full strip of fn.
FullStrip(fn, payload) ==
    IF fn = "claude" THEN stripClaudeThinkingBlocksForRetry(payload)
    ELSE stripAntigravityThinkingBlocksForRetry(payload)

\* A sanitizer is called with the payload and the session id and returns; it is then
\* called with the payload it returned.
CallSanitize(fn, payload, sessionID) ==
    /\ \E once \in {SelectiveStrip(fn, payload, sessionID)} :
          call' = [op |-> "sanitize", fn |-> fn, payload |-> payload, session |-> sessionID,
                   result |-> once, again |-> SelectiveStrip(fn, once.payload, sessionID)]
    /\ UNCHANGED <<lockVars, cache, cleanupStarted, sweeping, now, recorded, pc, req, journal>>

\* The payloads handed to the full strip.
StrippedPayloads == SanitizedPayloads \cup {PayloadOtherSession, PayloadNoUser}

\* A full strip is called with the payload and returns; it is then called with the
\* payload it returned.
CallStrip(fn, payload) ==
    /\ \E once \in {FullStrip(fn, payload)} :
          call' = [op |-> "strip", fn |-> fn, payload |-> payload,
                   result |-> once, again |-> FullStrip(fn, once.payload)]
    /\ UNCHANGED <<lockVars, cache, cleanupStarted, sweeping, now, recorded, pc, req, journal>>

\* An hour passes between two calls.
HourPasses ==
    /\ now < MaxTime
    /\ now' = now + 1
    /\ recorded' = [k \in {x \in DOMAIN recorded :
                              now' - recorded[x] <= InvalidSignatureCacheTTL} |-> recorded[k]]
    /\ call' = [op |-> "tick"]
    /\ UNCHANGED <<lockVars, cache, cleanupStarted, sweeping, pc, req, journal>>

NextCache ==
    \/ \E k \in RecordArgs : CallCacheInvalidSignature(k[1], k[2])
    \/ \E s \in CallSessions, g \in CallSignatures : CallIsInvalidSignature(s, g)
    \/ \E s \in CallSessions : CallClearInvalidSignatureCache(s)
    \/ CallPurgeExpiredInvalidSignatures
    \/ \E fn \in {"claude", "antigravity"}, p \in SanitizedPayloads, s \in CallSessions :
          CallSanitize(fn, p, s)
    \/ \E fn \in {"claude", "antigravity"}, p \in StrippedPayloads : CallStrip(fn, p)
    \/ HourPasses

\* The calls run one after the other; a pass of the sweep is one of them.
SpecCache == Init /\ [][NextCache]_vars

NextSweep ==
    \/ \E k \in RecordArgs : CallCacheInvalidSignature(k[1], k[2])
    \/ \E s \in CallSessions, g \in CallSignatures : CallIsInvalidSignature(s, g)
    \/ \E s \in CallSessions \ {""} : SweepVisit(s)
    \/ \E s \in CallSessions \ {""} : SweepDelete(s)
    \/ HourPasses

\* Records and reads interleave with the steps of the sweep's pass; nothing is cleared.
SpecSweep == Init /\ [][NextSweep]_vars

----------------------------------------------------------------------------
(* Properties of the cache.                                                 *)

C12_ClearedAfterClear ==
    call.op = "clear" =>
        IF call.session # ""
        THEN /\ call.session \notin DOMAIN cache
             /\ \A k \in call.before :
                   k[1] = call.session => ~IsInvalidSignature(cache, k[1], k[2], now)
        ELSE /\ DOMAIN cache = {}
             /\ \A s \in CallSessions, g \in CallSignatures : ~IsInvalidSignature(cache, s, g, now)

\* A session that had two signatures blacklisted has been cleared, another session
\* keeping its own.
C12_Witness ==
    /\ call.op = "clear" /\ call.session = "test-session"
    /\ {<<"test-session", "g1">>, <<"test-session", "g2">>, <<"other-session", "g1">>} \subseteq call.before
    /\ IsInvalidSignature(cache, "other-session", "g1", now)

\* C13: a signature reads as blacklisted for a session exactly when an entry exists
\* for the pair and now - timestamp <= TTL (the boundary included); an entry older
\* than the TTL reads as not blacklisted though no sweep has removed it.
C13_BlacklistedIffEntryWithinTTL ==
    call.op = "read" =>
        (call.result <=>
            /\ call.session \in DOMAIN cache
            /\ call.signature \in DOMAIN cache[call.session]
            /\ now - cache[call.session][call.signature] <= InvalidSignatureCacheTTL)

\* An entry that is still in the map, older than the TTL, has been read as not blacklisted.
C13_Witness ==
    /\ call.op = "read" /\ ~call.result
    /\ call.session \in DOMAIN cache
    /\ call.signature \in DOMAIN cache[call.session]
    /\ now - cache[call.session][call.signature] = InvalidSignatureCacheTTL + 1

\* C14: however CacheInvalidSignature(s, g) interleaves with the steps of a pass of
\* purgeExpiredInvalidSignatures, no clear being made, once the record has returned
\* IsInvalidSignature(s, g) is true until the TTL of that write has elapsed: the
\* sweep discards no unexpired entry, the removal of a session it found empty included.
C14_SweepKeepsUnexpiredEntries ==
    \A k \in DOMAIN recorded : IsInvalidSignature(cache, k[1], k[2], now)

\* The entries of partition part that are not older than the TTL at time t.
Unexpired(part, t) == {g \in DOMAIN part : t - part[g] <= InvalidSignatureCacheTTL}

\* C15: a pass of the sweep that runs alone deletes exactly the entries older than the
\* TTL and the partitions left without entry: after it no entry is expired, no
\* partition is empty, and every entry that was unexpired is still blacklisted.
C15_SweepDeletesExactlyExpired ==
    call.op = "sweep" =>
        /\ DOMAIN cache = {s \in DOMAIN call.before : Unexpired(call.before[s], now) # {}}
        /\ \A s \in DOMAIN cache :
              /\ DOMAIN cache[s] = Unexpired(call.before[s], now)
              /\ DOMAIN cache[s] # {}
              /\ \A g \in DOMAIN cache[s] :
                    /\ cache[s][g] = call.before[s][g]
                    /\ now - cache[s][g] <= InvalidSignatureCacheTTL
                    /\ IsInvalidSignature(cache, s, g, now)

\* The pass found a session with an expired and an unexpired entry, and a session
\* whose only entry had expired.
C15_Witness ==
    /\ call.op = "sweep"
    /\ DOMAIN call.before = {"test-session", "other-session"}
    /\ Unexpired(call.before["test-session"], now) = {"g2"}
    /\ DOMAIN call.before["test-session"] = {"g1", "g2"}
    /\ Unexpired(call.before["other-session"], now) = {}
    /\ DOMAIN cache = {"test-session"}
    /\ now - cache["test-session"]["g2"] = InvalidSignatureCacheTTL

\* C16: the blacklist does not leak across sessions: CacheInvalidSignature(s, g) and
\* ClearInvalidSignatureCache(s), s not empty, leave IsInvalidSignature(s2, g2) as it
\* was for every session s2 other than s and every g2.
C16_OtherSessionsUntouched ==
    [][(call'.op \in {"record", "clear"} /\ call'.session # "") =>
          \A s2 \in CallSessions \ {call'.session} :
              /\ (s2 \in DOMAIN cache') = (s2 \in DOMAIN cache)
              /\ s2 \in DOMAIN cache => cache'[s2] = cache[s2]
              /\ \A g2 \in CallSignatures :
                    IsInvalidSignature(cache', s2, g2, now') = IsInvalidSignature(cache, s2, g2, now)]_vars

\* g1 has been recorded for one session while the other session, which holds g2, does
\* not have g1 blacklisted.
C16_Witness ==
    /\ call.op = "record" /\ call.session = "other-session" /\ call.signature = "g1"
    /\ IsInvalidSignature(cache, "other-session", "g1", now)
    /\ IsInvalidSignature(cache, "test-session", "g2", now)
    /\ ~IsInvalidSignature(cache, "test-session", "g1", now)

\* C17: IsInvalidSignature(s, g) is false whenever s or g is the empty string,
\* whatever was called before, and CacheInvalidSignature with an empty session or an
\* empty signature leaves the whole state of the cache as it was.
C17_EmptyArgumentsAreInert ==
    [][/\ \A s \in CallSessions, g \in CallSignatures :
             (s = "" \/ g = "") => ~IsInvalidSignature(cache', s, g, now')
       /\ (call'.op = "read" /\ (call'.session = "" \/ call'.signature = "")) => ~call'.result
       /\ (call'.op = "record" /\ (call'.session = "" \/ call'.signature = "")) =>
             /\ cache' = cache
             /\ cleanupStarted' = cleanupStarted
             /\ sweeping' = sweeping]_vars

\* A record with an empty session id has been made on a cache that holds entries.
C17_Witness ==
    /\ call.op = "record" /\ call.session = "" /\ call.signature = "g1"
    /\ IsInvalidSignature(cache, "test-session", "g1", now)
    /\ DOMAIN cache = {"test-session"}

----------------------------------------------------------------------------
(* Properties of the sanitizers.                                            *)

\* The signatures, none of them empty, that are blacklisted for sessionID.
BlacklistedFor(sessionID) ==
    {g \in Signatures : g # "" /\ IsInvalidSignature(cache, sessionID, g, now)}

\* C19: the selective strip replaces exactly the blocks of type thinking whose
\* signature is not empty and is blacklisted for the session, each by the placeholder
\* at the same position; a thinking block with another signature, not blacklisted,
\* stays as it is in the same payload.
C19_SelectiveStripReplacesExactlyBlacklisted ==
    call.op = "sanitize" =>
        /\ Positions(call.result.payload) = Positions(call.payload)
        /\ \A pos \in Positions(call.payload) :
              BlockAt(call.result.payload, pos) =
                 IF /\ BlockType(BlockAt(call.payload, pos)) = "thinking"
                    /\ BlockSignature(BlockAt(call.payload, pos)) \in BlacklistedFor(call.session)
                 THEN thinkingPlaceholder
                 ELSE BlockAt(call.payload, pos)
        /\ call.result.payload = Stripped(call.payload, FALSE, BlacklistedFor(call.session))

\* Of two thinking blocks of a payload the one signed g2, blacklisted, has become
\* the placeholder and the one signed g1, not blacklisted, is as it was.
C19_Witness ==
    /\ call.op = "sanitize" /\ call.fn = "claude"
    /\ call.payload = PayloadTwoSigs /\ call.session = "test-session"
    /\ BlacklistedFor("test-session") = {"g2"}
    /\ IsInvalidSignature(cache, "other-session", "g1", now)
    /\ BlockAt(call.result.payload, <<2, 1>>) = Thinking("t1", "g1")
    /\ BlockAt(call.result.payload, <<2, 2>>) = thinkingPlaceholder

\* C20: the selective strip returns the payload it was given, with changed = false,
\* when the session key is empty or no signature blacklisted for the session occurs
\* in the payload; and changed is true exactly when at least one block was replaced.
C20_SelectiveStripNoOp ==
    call.op = "sanitize" =>
        /\ (\/ call.session = ""
            \/ \A g \in BlacklistedFor(call.session) : ~CarriesSignature(call.payload, g))
              => (call.result.payload = call.payload /\ ~call.result.changed)
        /\ call.result.changed <=>
              \E pos \in Positions(call.payload) :
                  BlockAt(call.result.payload, pos) # BlockAt(call.payload, pos)

\* A payload with two signed thinking blocks went through the strip with an empty
\* session key while both signatures are blacklisted for a session, and came back as
\* it was.
C20_Witness ==
    /\ call.op = "sanitize" /\ call.fn = "antigravity"
    /\ call.payload = PayloadTwoSigs /\ call.session = ""
    /\ BlacklistedFor("test-session") = {"g1", "g2"}
    /\ call.result = [payload |-> PayloadTwoSigs, changed |-> FALSE]

----------------------------------------------------------------------------
(* Properties of the full strip.                                            *)

\* C21: the full strip replaces every block of type thinking of the payload by the
\* placeholder, signed or not and whatever the cache holds, so that no block of type
\* thinking is left in the payload it returns.
C21_FullStripLeavesNoThinking ==
    call.op = "strip" =>
        /\ Positions(call.result.payload) = Positions(call.payload)
        /\ \A pos \in Positions(call.payload) :
              BlockType(BlockAt(call.payload, pos)) = "thinking"
                 => BlockAt(call.result.payload, pos) = thinkingPlaceholder
        /\ \A pos \in Positions(call.result.payload) :
              BlockType(BlockAt(call.result.payload, pos)) # "thinking"

\* A payload with an unsigned thinking block and a thinking block signed g1 went
\* through the full strip while nothing but g2 is blacklisted, and both blocks came
\* back as the placeholder.
C21_Witness ==
    /\ call.op = "strip" /\ call.fn = "antigravity" /\ call.payload = PayloadOddSigs
    /\ BlacklistedFor("test-session") = {"g2"}
    /\ BlockAt(call.result.payload, <<2, 1>>) = thinkingPlaceholder
    /\ BlockAt(call.result.payload, <<2, 3>>) = thinkingPlaceholder
    /\ call.result.changed

\* C22: the strips are idempotent.  The full strip applied to the payload it returned
\* returns that payload again and reports changed = false; the selective strip applied
\* to the payload it returned, under the same blacklist, returns that payload again;
\* and a placeholder is never replaced: where the first application left a
\* placeholder, the second leaves it as it is.
C22_StripsAreIdempotent ==
    /\ call.op = "strip" =>
          (call.again.payload = call.result.payload /\ ~call.again.changed)
    /\ call.op = "sanitize" => call.again.payload = call.result.payload
    /\ call.op \in {"strip", "sanitize"} =>
          \A pos \in Positions(call.result.payload) :
              BlockAt(call.result.payload, pos) = thinkingPlaceholder
                 => BlockAt(call.again.payload, pos) = thinkingPlaceholder

\* The full strip replaced two thinking blocks, and on the payload it returned it
\* replaced nothing.
C22_Witness ==
    /\ call.op = "strip" /\ call.fn = "claude" /\ call.payload = PayloadTwoSigs
    /\ call.result.changed
    /\ call.result.payload # call.payload
    /\ BlockAt(call.result.payload, <<2, 1>>) = thinkingPlaceholder
    /\ call.again = [payload |-> call.result.payload, changed |-> FALSE]

\* C23: blocks of type thinking and blocks of type redacted_thinking are both replaced:
\* in the payload a full strip returns, no block of either type is left.
C23_FullStripLeavesNoRedactedThinking ==
    call.op = "strip" =>
        \A pos \in Positions(call.result.payload) :
            BlockType(BlockAt(call.result.payload, pos)) \notin {"thinking", "redacted_thinking"}

\* The thinking blocks a call of a strip is to replace: all of them for the full
\* strip, those with a signature blacklisted for the session for the selective strip.
Targeted(part) ==
    /\ BlockType(part) = "thinking"
    /\ (call.op = "strip" \/ BlockSignature(part) \in BlacklistedFor(call.session))

\* C24: both strips preserve the structure.  The payload returned has the messages of
\* the payload given, as many and in the same order, each with its role and with as
\* many content blocks in the same order; and every block that is not replaced (every
\* block that is no thinking block and, for the selective strip, every thinking block
\* that is not targeted) is the block of the payload given at the same position.
C24_StripsPreserveStructure ==
    (call.op \in {"strip", "sanitize"} /\ MessagesIsArray(call.payload)) =>
        /\ MessagesIsArray(call.result.payload)
        /\ Len(call.result.payload.messages) = Len(call.payload.messages)
        /\ \A i \in DOMAIN call.payload.messages :
              LET before == call.payload.messages[i]
                  after  == call.result.payload.messages[i]
              IN  /\ after.role = before.role
                  /\ ContentIsArray(after) = ContentIsArray(before)
                  /\ ~ContentIsArray(before) => after = before
                  /\ ContentIsArray(before) =>
                        /\ Len(after.content.arr) = Len(before.content.arr)
                        /\ \A j \in DOMAIN before.content.arr :
                              ~Targeted(before.content.arr[j])
                                 => after.content.arr[j] = before.content.arr[j]

\* The selective strip replaced the thinking block signed g1 of a payload and left
\* the two blocks before it, an unsigned thinking block and a tool_use block that
\* carries the blacklisted signature g2, where and as they were.
C24_Witness ==
    /\ call.op = "sanitize" /\ call.fn = "antigravity"
    /\ call.payload = PayloadOddSigs /\ call.session = "test-session"
    /\ BlacklistedFor("test-session") = {"g1", "g2"}
    /\ call.result.changed
    /\ call.result.payload.messages[2].content.arr =
          <<UnsignedThinking("t3"), SignedToolUse("f", "g2"), thinkingPlaceholder>>

----------------------------------------------------------------------------
(* The functions of payloads and of error texts called directly.            *)

\* The payloads handed to deriveSessionIDFromClaudeMessages.
DerivePayloads == {PayloadTwoSigs, PayloadStructuredUser, PayloadStructuredTwoParts,
                   PayloadOtherSession, PayloadNoUser, PayloadNoMessages, PayloadImageUser,
                   PayloadLateUser}

\* deriveSessionIDFromClaudeMessages is called with one payload and then with another.
DeriveTable == [payload \in DerivePayloads |-> deriveSessionIDFromClaudeMessages(payload)]

CallDerive(payload, other) ==
    /\ call' = [op |-> "derive", payload |-> payload, other |-> other,
                result |-> DeriveTable[payload], otherResult |-> DeriveTable[other]]
    /\ UNCHANGED <<lockVars, cache, cleanupStarted, sweeping, now, recorded, pc, req, journal>>

\* The status codes of the answers handed to the classifiers.
StatusCodes == {400, 401, 429, 500}

\* The forms in which an error text m reaches a classifier.
Forms == {"raw", "flat", "top", "anthropic", "nested", "rpcflat", "rpc"}

DocOf(form, m) ==
    CASE form = "flat"      -> FlatDoc(m)
      [] form = "top"       -> TopDoc(m)
      [] form = "anthropic" -> AnthropicDoc(m)
      [] form = "nested"    -> NestedDoc(m)
      [] form = "rpcflat"   -> RpcDoc(FlatDoc(m))
      [] form = "rpc"       -> RpcDoc(AnthropicDoc(m))

EnvelopeTable ==
    [form \in Forms |-> [m \in Messages |-> IF form = "raw" THEN m ELSE BytesOfDoc[DocOf(form, m)]]]

Envelope(form, m) == EnvelopeTable[form][m]

\* The bodies in play and, computed once, what the classifiers and the coordinate
\* extraction of each executor return for them.
Bodies == {Envelope(f, m) : f \in Forms, m \in Messages}

ClassifyTable ==
    [classifier \in {"claude", "antigravity"} |->
        [statusCode \in StatusCodes |->
            [body \in Bodies |->
                IF classifier = "claude"
                THEN isClaudeThinkingInvalidSignatureError(statusCode, body)
                ELSE isAntigravityThinkingSignatureError(statusCode, body)]]]

ExtractTable ==
    [classifier \in {"claude", "antigravity"} |->
        [body \in Bodies |->
            IF classifier = "claude" THEN extractInvalidThinkingPath(body)
            ELSE extractAntigravityInvalidThinkingPath(body)]]

\* A classifier of an executor is called with a status code and a body, and the
\* coordinate is extracted from the same body.
CallClassify(classifier, statusCode, form, m) ==
    /\ \E body \in {Envelope(form, m)} :
          call' = [op |-> "classify", classifier |-> classifier, status |-> statusCode,
                   form |-> form, m |-> m, body |-> body,
                   result |-> ClassifyTable[classifier][statusCode][body],
                   path |-> ExtractTable[classifier][body]]
    /\ UNCHANGED <<lockVars, cache, cleanupStarted, sweeping, now, recorded, pc, req, journal>>

\* The error values handed to ShouldFallbackThinkingSignature.
ErrorMessages ==
    {NilErrorMessage} \cup {ErrorMessage(c, NilError) : c \in StatusCodes}
        \cup {ErrorMessage(c, ErrorsNew(body)) : c \in StatusCodes, body \in Bodies}

FallbackTable == [err \in ErrorMessages |-> ShouldFallbackThinkingSignature(err)]

\* ShouldFallbackThinkingSignature is called with an error value.
CallShouldFallback(err) ==
    /\ call' = [op |-> "fallback", err |-> err, result |-> FallbackTable[err]]
    /\ UNCHANGED <<lockVars, cache, cleanupStarted, sweeping, now, recorded, pc, req, journal>>

NextText ==
    \/ \E p \in DerivePayloads, q \in DerivePayloads : CallDerive(p, q)
    \/ \E k \in {"claude", "antigravity"}, c \in StatusCodes, f \in Forms, m \in Messages :
          CallClassify(k, c, f, m)
    \/ \E err \in ErrorMessages : CallShouldFallback(err)

\* The functions of a payload or of an error are called one after the other.
SpecText == Init /\ [][NextText]_vars

----------------------------------------------------------------------------
(* Properties of the session key.                                           *)

\* The text of a message: its content when that is a string, the text of its first
\* content block when it is an array of blocks.
TextOf(msg) ==
    IF "content" \notin DOMAIN msg THEN ""
    ELSE IF "arr" \in DOMAIN msg.content THEN ContentZeroText(msg)
    ELSE msg.content.str

\* The indexes of the user messages of a payload.
UserTurns(payload) ==
    IF ~MessagesIsArray(payload) THEN {}
    ELSE {i \in DOMAIN payload.messages : payload.messages[i].role = "user"}

\* The text of the first user message, "" when there is no user message.
FirstUserText(payload) ==
    IF UserTurns(payload) = {} THEN ""
    ELSE TextOf(payload.messages[CHOOSE i \in UserTurns(payload) :
                                    \A k \in UserTurns(payload) : i <= k])

\* C25: the session key depends on the text of the first user message only: two
\* payloads whose first user message has the same text, given as a string or as the
\* text of the first content block, get the same key, whatever else they hold.
C25_SameFirstUserTextSameKey ==
    (/\ call.op = "derive"
     /\ FirstUserText(call.payload) # ""
     /\ FirstUserText(call.payload) = FirstUserText(call.other))
        => call.result = call.otherResult

\* C26: the key is empty exactly when no user message of the payload has a text.
C26_EmptyKeyIffNoUserText ==
    call.op = "derive" =>
        (call.result = "" <=>
            \A i \in UserTurns(call.payload) : TextOf(call.payload.messages[i]) = "")

----------------------------------------------------------------------------
(* Properties of the recovery when nothing can be recorded.                 *)

\* The first answer of request r, a request for /v1/messages, is a signature error
\* for the classifier of its wrapper.
FirstIsSignatureError(r) ==
    /\ req[r].messagesPath
    /\ Len(req[r].answers) >= 1
    /\ ClassifiedBy(req[r].wrapper, req[r].answers[1])

\* The blacklist cannot be updated from the first answer of r: the session key is
\* empty, the body carries no coordinate, or the payload holds no signature at the
\* coordinate (the coordinate lies outside the payload included).
CannotRecord(r) ==
    \/ req[r].sessionID = ""
    \/ ~FirstPath(r).ok
    \/ SignatureAtFirstPath(r, req[r].recoveryPayload) = ""

\* C27: when attempt 1 ends with a classified signature error and the blacklist cannot
\* be updated, no error is raised, nothing is written to the cache, and exactly one
\* retry is made, with the full strip of the request payload.
C27_UnrecordableErrorStillRetried ==
    \A r \in Reqs :
        (FirstIsSignatureError(r) /\ CannotRecord(r)) =>
            /\ Len(req[r].sent) = 2
            /\ Writes(r) = << >>
            /\ req[r].sent[2] = Stripped(req[r].originalPayload, TRUE, {})

----------------------------------------------------------------------------
(* Properties of the classifiers.                                           *)

\* C28: every classifier returns false for a status code other than 400, whatever
\* the body; ShouldFallbackThinkingSignature also returns false for a nil error value
\* and for an error value whose underlying error is nil.
C28_OnlyStatus400IsClassified ==
    /\ (call.op = "classify" /\ call.status # 400) => ~call.result
    /\ call.op = "fallback" =>
          ((\/ call.err = NilErrorMessage
            \/ call.err.StatusCode # 400
            \/ call.err.Error = NilError) => ~call.result)

\* ShouldFallbackThinkingSignature returned false for status 500 with a text for
\* which it returns true under status 400.
C28_Witness ==
    /\ call.op = "fallback"
    /\ call.err = ErrorMessage(500, ErrorsNew(MsgCoord10))
    /\ ~call.result
    /\ ShouldFallbackThinkingSignature(ErrorMessage(400, ErrorsNew(MsgCoord10)))

\* The text holds the three words, each somewhere, in any case.
HasThreeKeywords(text) ==
    /\ Contains(ToLower(text), "invalid")
    /\ Contains(ToLower(text), "signature")
    /\ Contains(ToLower(text), "thinking")

\* C29: for status 400 a classifier returns true if and only if the message text of
\* the body holds "invalid", "signature" and "thinking", in any case, in any order and
\* with any text between them.
C29_ClassifiedIffThreeKeywords ==
    (call.op = "classify" /\ call.status = 400) =>
        (call.result <=> HasThreeKeywords(call.m))

\* C30: unwrapping the envelope is transparent.  For every message text m, the
\* classifier and the coordinate extraction of an executor return for the flat
\* envelope of m, for {"message": m}, for the Anthropic envelope and for the
\* envelopes that carry the JSON encoding of an envelope of m as their error.message
\* what they return for the text m itself.
C30_EnvelopesAreTransparent ==
    call.op = "classify" =>
        /\ call.result = ClassifyTable[call.classifier][call.status][call.m]
        /\ call.path = ExtractTable[call.classifier][call.m]

\* The Antigravity classifier accepted, and the extraction found the coordinate
\* (1, 1) in, an envelope whose error.message is the JSON encoding of the flat
\* envelope of the message.
C30_Witness ==
    /\ call.op = "classify" /\ call.classifier = "antigravity" /\ call.status = 400
    /\ call.form = "nested" /\ call.m = MsgCoord11
    /\ call.body # call.m
    /\ GjsonErrorMessage(call.body) = BytesOfDoc[FlatDoc(MsgCoord11)]
    /\ call.result
    /\ call.path = [ok |-> TRUE, msgIndex |-> 1, partIndex |-> 1]

----------------------------------------------------------------------------
(* Properties of the coordinate extraction.                                 *)

\* The numerals that occur in the message texts, with the integers they denote.
Numerals == {"0", "1", "2", "3", "7", "10", "12"}
NumeralValue(a) ==
    CASE a = "0" -> 0 [] a = "1" -> 1 [] a = "2" -> 2 [] a = "3" -> 3 [] a = "7" -> 7
      [] a = "10" -> 10 [] a = "12" -> 12

\* messages.<a>.content.<b> stands at position i of the text, and b is not followed
\* by a further digit.
CoordinateAt(text, i, a, b) ==
    LET pattern == "messages." \o a \o ".content." \o b
        end     == i + Len(pattern) - 1
    IN  /\ end <= Len(text)
        /\ SubSeq(text, i, end) = pattern
        /\ (end < Len(text) => ~IsDigit(SubSeq(text, end + 1, end + 1)))

\* The text holds the words messages. and .content. with something between them.
HoldsCoordinate(text, i) == \E a \in Numerals, b \in Numerals : CoordinateAt(text, i, a, b)

\* C31: the coordinate extraction returns (i, j, true) with the two integers of the
\* first occurrence of messages.<digits>.content.<digits> in the message text, and
\* (0, 0, false) when the text holds no such pattern; it returns in every case.
C31_FirstCoordinateOfTheMessage ==
    call.op = "classify" =>
        /\ DOMAIN call.path = {"ok", "msgIndex", "partIndex"}
        /\ call.path.ok <=> \E i \in 1..Len(call.m) : HoldsCoordinate(call.m, i)
        /\ ~call.path.ok => (call.path.msgIndex = 0 /\ call.path.partIndex = 0)
        /\ call.path.ok =>
              \E i \in 1..Len(call.m), a \in Numerals, b \in Numerals :
                  /\ CoordinateAt(call.m, i, a, b)
                  /\ \A k \in 1..(i - 1) : ~HoldsCoordinate(call.m, k)
                  /\ call.path.msgIndex = NumeralValue(a)
                  /\ call.path.partIndex = NumeralValue(b)

\* The extraction of the Claude executor returned (2, 1) for a text that holds
\* messages.2.content.1 and, after it, messages.3.content.0.
C31_Witness ==
    /\ call.op = "classify" /\ call.classifier = "claude" /\ call.form = "flat"
    /\ call.m = MsgTwoCoords
    /\ call.path = [ok |-> TRUE, msgIndex |-> 2, partIndex |-> 1]

----------------------------------------------------------------------------
(* The builders of a final-only stream (sdk/api/handlers).  A JSON value is *)
(* kept as a tree; an SSE frame is [event |-> .., data |-> ..] for          *)
(* "event: ..\ndata: ..\n\n" and [data |-> ..] for "data: ..\n\n", in the  *)
(* order in which the builder writes them.                                 *)

\* The most content blocks, and the most choices, of a response.
MaxBlocks == 2

JsonNull == [null |-> TRUE]

\* part.Get(field).String() / root.Get(field).String()
GetString(value, field) == IF field \in DOMAIN value THEN value[field] ELSE ""

\* The frames BuildClaudeFinalOnlySSE writes for the content blocks from index i on.
RECURSIVE ClaudeBlockFrames(_, _)
ClaudeBlockFrames(contentBlocks, i) ==
    IF i >= Len(contentBlocks) THEN << >>
    ELSE LET block     == contentBlocks[i + 1]
             blockType == GetString(block, "type")
             start == [event |-> "content_block_start",
                       data  |-> [type |-> "content_block_start", index |-> i,
                                  content_block |-> block]]
             delta == IF blockType = "text"
                      THEN << [event |-> "content_block_delta",
                               data  |-> [type |-> "content_block_delta", index |-> i,
                                          delta |-> [type |-> "text_delta",
                                                     text |-> GetString(block, "text")]]] >>
                      ELSE IF blockType = "thinking"
                      THEN << [event |-> "content_block_delta",
                               data  |-> [type |-> "content_block_delta", index |-> i,
                                          delta |-> [type |-> "thinking_delta",
                                                     thinking |-> GetString(block, "thinking")]]] >>
                      ELSE << >>
             stop  == [event |-> "content_block_stop",
                       data  |-> [type |-> "content_block_stop", index |-> i]]
         IN  <<start>> \o delta \o <<stop>> \o ClaudeBlockFrames(contentBlocks, i + 1)

\* root.Get("content").Array(): no element for a missing value
ContentArray(root) == IF "content" \in DOMAIN root THEN root.content ELSE << >>

\* The message_delta frame: the usage is added when the response has one.
ClaudeMessageDelta(root) ==
    LET delta == [stop_reason |-> GetString(root, "stop_reason"), stop_sequence |-> JsonNull]
    IN  [event |-> "message_delta",
         data  |-> IF "usage" \in DOMAIN root /\ root.usage # JsonNull
                   THEN [type |-> "message_delta", delta |-> delta, usage |-> root.usage]
                   ELSE [type |-> "message_delta", delta |-> delta]]

\* Variant: no delta frame is written for a thinking block.
BuildClaudeFinalOnlySSETextDeltasOnly(nonStreamResp) ==
    << [event |-> "message_start",
        data  |-> [type |-> "message_start", message |-> nonStreamResp]] >>
      \o SelectSeq(ClaudeBlockFrames(ContentArray(nonStreamResp), 0),
                   LAMBDA f : ~(f.event = "content_block_delta"
                                  /\ f.data.delta.type = "thinking_delta"))
      \o << ClaudeMessageDelta(nonStreamResp),
            [event |-> "message_stop", data |-> [type |-> "message_stop"]] >>

BuildClaudeFinalOnlySSE(nonStreamResp) ==
    << [event |-> "message_start",
        data  |-> [type |-> "message_start", message |-> nonStreamResp]] >>
      \o ClaudeBlockFrames(ContentArray(nonStreamResp), 0)
      \o << ClaudeMessageDelta(nonStreamResp),
            [event |-> "message_stop", data |-> [type |-> "message_stop"]] >>

\* The content blocks and the responses handed to BuildClaudeFinalOnlySSE.
ResponseBlocks == {Text("Hello world"), Thinking("t1", "g1"), Redacted("x"),
                   [type |-> "tool_use", name |-> "f"]}
ResponseContents == UNION {[1..n -> ResponseBlocks] : n \in 0..MaxBlocks}
Usage == [input_tokens |-> 10, output_tokens |-> 5]
ClaudeResponses ==
    {[content |-> c, stop_reason |-> "end_turn", usage |-> Usage] : c \in ResponseContents}
      \cup {[content |-> c, stop_reason |-> "end_turn"] : c \in ResponseContents}
      \cup {[content |-> c, usage |-> Usage] : c \in ResponseContents}
      \cup {[id |-> "msg_123"], [id |-> "msg_123", content |-> << >>, usage |-> JsonNull]}

\* BuildClaudeFinalOnlySSE is called with a response and returns the frames.
CallBuildClaude(nonStreamResp) ==
    /\ call' = [op |-> "sse", provider |-> "claude", response |-> nonStreamResp,
                frames |-> BuildClaudeFinalOnlySSE(nonStreamResp)]
    /\ UNCHANGED <<lockVars, cache, cleanupStarted, sweeping, now, recorded, pc, req, journal>>

\* The time stamps time.Now() may give while a builder runs.
Clock == {1700000001, 1700000002}

\* root.Get("created").Int(): 0 for a missing value
GetInt(value, field) == IF field \in DOMAIN value THEN value[field] ELSE 0

\* The delta of a choice: role and content when they are not empty, tool_calls when
\* the message has them.
OpenAIDelta(message) ==
    LET role    == GetString(message, "role")
        content == GetString(message, "content")
        d0 == [x \in {} |-> ""]
        d1 == IF role # "" THEN [role |-> role] ELSE d0
        d2 == IF content # "" THEN d1 @@ [content |-> content] ELSE d1
    IN  IF "tool_calls" \in DOMAIN message THEN d2 @@ [tool_calls |-> message.tool_calls]
        ELSE d2

\* The choices of the chunk, from index i on.
RECURSIVE OpenAIChoices(_, _)
OpenAIChoices(choices, i) ==
    IF i >= Len(choices) THEN << >>
    ELSE LET choice  == choices[i + 1]
             idx     == IF "index" \in DOMAIN choice THEN choice.index ELSE i
             message == IF "message" \in DOMAIN choice THEN choice.message ELSE [x \in {} |-> ""]
             base    == [index |-> idx, delta |-> OpenAIDelta(message)]
             out     == IF GetString(choice, "finish_reason") # ""
                        THEN base @@ [finish_reason |-> choice.finish_reason]
                        ELSE base
         IN  <<out>> \o OpenAIChoices(choices, i + 1)

\* The chunk BuildOpenAIFinalOnlySSE assembles; unixNano and unix are what time.Now()
\* gives.
OpenAIChunk(nonStreamResp, unixNano, unix) ==
    LET id      == IF GetString(nonStreamResp, "id") = ""
                   THEN "chatcmpl-" \o ToString(unixNano) ELSE nonStreamResp.id
        created == IF GetInt(nonStreamResp, "created") = 0 THEN unix
                   ELSE nonStreamResp.created
        choices == IF "choices" \in DOMAIN nonStreamResp THEN nonStreamResp.choices ELSE << >>
        chunk   == [id |-> id, object |-> "chat.completion.chunk", created |-> created,
                    model |-> GetString(nonStreamResp, "model"),
                    choices |-> OpenAIChoices(choices, 0)]
    IN  IF "usage" \in DOMAIN nonStreamResp
        THEN chunk @@ [usage |-> nonStreamResp.usage] ELSE chunk

\* Variant: the closing frame is not written.
BuildOpenAIFinalOnlySSEWithoutDone(nonStreamResp, unixNano, unix) ==
    << [data |-> OpenAIChunk(nonStreamResp, unixNano, unix)] >>

\* BuildOpenAIFinalOnlySSE: the chunk in a data frame, then the closing frame
BuildOpenAIFinalOnlySSE(nonStreamResp, unixNano, unix) ==
    << [data |-> OpenAIChunk(nonStreamResp, unixNano, unix)], [data |-> "[DONE]"] >>

\* BuildGeminiFinalOnlySSE: the bytes written
BuildGeminiFinalOnlySSE(nonStreamResp, alt) ==
    IF alt = "" THEN "data: " \o nonStreamResp \o "\n\n" ELSE nonStreamResp

\* The responses handed to BuildOpenAIFinalOnlySSE and to BuildGeminiFinalOnlySSE.
OpenAIMessages ==
    {[role |-> "assistant", content |-> "Hello!"],
     [role |-> "assistant", content |-> ""],
     [role |-> "assistant", content |-> "Hi", tool_calls |-> <<[id |-> "call_1"]>>],
     [content |-> "Hello!"]}
OpenAIChoiceSet ==
    {[index |-> 0, message |-> m, finish_reason |-> "stop"] : m \in OpenAIMessages}
      \cup {[message |-> m] : m \in OpenAIMessages}
OpenAIChoiceSeqs == UNION {[1..n -> OpenAIChoiceSet] : n \in 0..MaxBlocks}
OpenAIResponses ==
    {[id |-> "chatcmpl-123", created |-> 1700000000, model |-> "gpt-4", choices |-> c,
      usage |-> [total_tokens |-> 15]] : c \in OpenAIChoiceSeqs}
      \cup {[model |-> "gpt-4", choices |-> c] : c \in OpenAIChoiceSeqs}
      \cup {[model |-> "gpt-4"]}
GeminiResponses == {"{\"candidates\":[{\"content\":{\"parts\":[{\"text\":\"Hi\"}]}}]}", "{}", ""}
GeminiAlts == {"", "json"}

\* BuildOpenAIFinalOnlySSE is called with a response and returns the frames.
CallBuildOpenAI(nonStreamResp, t) ==
    /\ call' = [op |-> "sse", provider |-> "openai", response |-> nonStreamResp,
                frames |-> BuildOpenAIFinalOnlySSE(nonStreamResp, t, t)]
    /\ UNCHANGED <<lockVars, cache, cleanupStarted, sweeping, now, recorded, pc, req, journal>>

\* BuildGeminiFinalOnlySSE is called with a response and alt and returns the bytes.
CallBuildGemini(nonStreamResp, alt) ==
    /\ call' = [op |-> "sse", provider |-> "gemini", response |-> nonStreamResp, alt |-> alt,
                bytes |-> BuildGeminiFinalOnlySSE(nonStreamResp, alt)]
    /\ UNCHANGED <<lockVars, cache, cleanupStarted, sweeping, now, recorded, pc, req, journal>>

NextSSE ==
    \/ \E resp \in ClaudeResponses : CallBuildClaude(resp)
    \/ \E resp \in OpenAIResponses, t \in Clock : CallBuildOpenAI(resp, t)
    \/ \E resp \in GeminiResponses, alt \in GeminiAlts : CallBuildGemini(resp, alt)

\* The builders are called one after the other.
SpecSSE == Init /\ [][NextSSE]_vars

\* ---------------------------------------------------------------------------
\* C32
\* ---------------------------------------------------------------------------

\* The number of frames a content block takes: start, stop, and a delta for text and
\* thinking.
FrameCount(block) ==
    IF "type" \in DOMAIN block /\ block.type \in {"text", "thinking"} THEN 3 ELSE 2

\* The position of the content_block_start frame of block i (i counted from 0).
RECURSIVE FirstFrame(_, _)
FirstFrame(blocks, i) ==
    IF i = 0 THEN 2 ELSE FirstFrame(blocks, i - 1) + FrameCount(blocks[i])

EventCount(frames, event) == Cardinality({p \in 1..Len(frames) : frames[p].event = event})

\* C32: the frames BuildClaudeFinalOnlySSE emits are, in this order, one message_start;
\* for each content block i a content_block_start with index i, a content_block_delta
\* with index i exactly when the block is of type text or thinking, and a
\* content_block_stop with index i; one message_delta that carries the stop reason,
\* and the usage when the response has one; one message_stop; and nothing else.
C32_ClaudeFrameSequence ==
    (call.op = "sse" /\ call.provider = "claude") =>
        LET resp   == call.response
            blocks == IF "content" \in DOMAIN resp THEN resp.content ELSE << >>
            n      == Len(blocks)
            frames == call.frames
            last   == FirstFrame(blocks, n)
        IN  /\ Len(frames) = last + 1
            /\ frames[1].event = "message_start"
            /\ frames[1].data = [type |-> "message_start", message |-> resp]
            /\ \A i \in 0..(n - 1) :
                   LET p     == FirstFrame(blocks, i)
                       block == blocks[i + 1]
                       q     == p + FrameCount(block) - 1
                   IN  /\ frames[p].event = "content_block_start"
                       /\ frames[p].data.index = i
                       /\ frames[p].data.content_block = block
                       /\ frames[q].event = "content_block_stop"
                       /\ frames[q].data.index = i
                       /\ (q = p + 2) <=> (block.type \in {"text", "thinking"})
                       /\ q = p + 2 =>
                              /\ frames[p + 1].event = "content_block_delta"
                              /\ frames[p + 1].data.index = i
                              /\ block.type = "text" =>
                                     frames[p + 1].data.delta =
                                         [type |-> "text_delta", text |-> block.text]
                              /\ block.type = "thinking" =>
                                     frames[p + 1].data.delta =
                                         [type |-> "thinking_delta", thinking |-> block.thinking]
            /\ frames[last].event = "message_delta"
            /\ frames[last].data.delta.stop_reason =
                   (IF "stop_reason" \in DOMAIN resp THEN resp.stop_reason ELSE "")
            /\ ("usage" \in DOMAIN frames[last].data) <=>
                   ("usage" \in DOMAIN resp /\ resp.usage # JsonNull)
            /\ "usage" \in DOMAIN frames[last].data => frames[last].data.usage = resp.usage
            /\ frames[last + 1].event = "message_stop"
            /\ EventCount(frames, "message_start") = 1
            /\ EventCount(frames, "message_delta") = 1
            /\ EventCount(frames, "message_stop") = 1
            /\ EventCount(frames, "content_block_start") = n
            /\ EventCount(frames, "content_block_stop") = n

\* A response with a thinking block and a tool_use block and a usage was rebuilt: eight
\* frames, the third the delta of the thinking block, none for the tool_use block.
C32_Witness ==
    /\ call.op = "sse" /\ call.provider = "claude"
    /\ call.response = [content |-> <<Thinking("t1", "g1"), [type |-> "tool_use", name |-> "f"]>>,
                        stop_reason |-> "end_turn", usage |-> Usage]
    /\ Len(call.frames) = 8
    /\ call.frames[3].event = "content_block_delta"
    /\ call.frames[6].event = "content_block_stop"
    /\ call.frames[7].data.usage = Usage

\* ---------------------------------------------------------------------------
\* C33
\* ---------------------------------------------------------------------------

\* C33: reconstruction preserves text and closes the sequence. Claude: every text block
\* of the response has a delta frame with its index and its text unchanged, and the last
\* frame is message_stop. OpenAI: the content of the delta of every choice reads as the
\* content of the choice's message, and the last frame is data: [DONE]. Gemini: with an
\* empty alt the output is the one frame "data: " body blank line, otherwise the body.
C33_TextPreservedAndSequenceClosed ==
    call.op = "sse" =>
        /\ call.provider = "claude" =>
               LET resp   == call.response
                   blocks == IF "content" \in DOMAIN resp THEN resp.content ELSE << >>
                   frames == call.frames
               IN  /\ frames[Len(frames)].event = "message_stop"
                   /\ \A i \in 0..(Len(blocks) - 1) :
                          blocks[i + 1].type = "text" =>
                              \E p \in 1..Len(frames) :
                                  /\ frames[p].event = "content_block_delta"
                                  /\ frames[p].data.index = i
                                  /\ frames[p].data.delta.type = "text_delta"
                                  /\ frames[p].data.delta.text = blocks[i + 1].text
        /\ call.provider = "openai" =>
               LET oresp   == call.response
                   choices == IF "choices" \in DOMAIN oresp THEN oresp.choices ELSE << >>
                   chunks  == call.frames
               IN  /\ Len(chunks) = 2
                   /\ chunks[2].data = "[DONE]"
                   /\ Len(chunks[1].data.choices) = Len(choices)
                   /\ \A i \in 1..Len(choices) :
                          GetString(chunks[1].data.choices[i].delta, "content")
                              = choices[i].message.content
        /\ call.provider = "gemini" =>
               LET body == call.response
                   out  == call.bytes
               IN  IF call.alt = ""
                   THEN /\ Len(out) = Len(body) + 8
                        /\ SubSeq(out, 1, 6) = "data: "
                        /\ SubSeq(out, 7, Len(out) - 2) = body
                        /\ SubSeq(out, Len(out) - 1, Len(out)) = "\n\n"
                   ELSE out = body

\* An OpenAI response with one choice that says Hello! was rebuilt: the delta carries
\* Hello! and the closing frame follows.
C33_Witness ==
    /\ call.op = "sse" /\ call.provider = "openai"
    /\ "choices" \in DOMAIN call.response
    /\ Len(call.response.choices) = 1
    /\ call.response.choices[1].message.content = "Hello!"
    /\ call.frames[1].data.choices[1].delta.content = "Hello!"
    /\ call.frames[2].data = "[DONE]"

\* ---------------------------------------------------------------------------
\* C34
\* ---------------------------------------------------------------------------

\* C34: the classifier call sites apply one rule.  For every status code and every
\* error body, isAntigravityThinkingSignatureError, isClaudeThinkingInvalidSignatureError
\* and ShouldFallbackThinkingSignature, given the status and the body as the error text,
\* return the same verdict.
C34_ClassifiersAgree ==
    call.op = "classify" =>
        LET antigravity == ClassifyTable["antigravity"][call.status][call.body]
            claude      == ClassifyTable["claude"][call.status][call.body]
            fallback    == FallbackTable[ErrorMessage(call.status, ErrorsNew(call.body))]
        IN  /\ call.result = ClassifyTable[call.classifier][call.status][call.body]
            /\ antigravity = claude
            /\ claude = fallback

----------------------------------------------------------------------------
(* The cache step by step: the goroutines that call CacheInvalidSignature,   *)
(* IsInvalidSignature and ClearInvalidSignatureCache and the goroutine of    *)
(* the sweep take the steps of these functions one at a time; a step is what *)
(* a function does between two operations on the sync.Map or on a mu.        *)

\* The sessions and signatures the callers use.
LockSessions == {"test-session", "other-session"}
LockSignatures == {"g1"}

\* The addresses of the partitions: one per key and one per goroutine are enough,
\* an address that nothing points to any more is used again.
Addresses == 1..(Cardinality(LockSessions) + Cardinality(Goroutines))

\* A sync.RWMutex: w is the goroutine that holds the writers' side, from the moment
\* its Lock has announced it until its Unlock; active are the readers that hold the
\* lock; blocked are the readers that came while a writer was announced.
FreeMutex == [w |-> "", active |-> {}, blocked |-> {}]

\* &sessionInvalidCache{entries: make(map[string]time.Time)}
NewSessionInvalidCache == [mu |-> FreeMutex, entries |-> EmptyMap]

\* Lock, first half: the writer is announced; it holds the lock once no reader does.
LockAnnounce(m, g) == [m EXCEPT !.w = g]

\* Variant: Unlock leaves the lock with its writer.
UnlockForgotten(m) == m

\* Unlock: the writer leaves and the readers that were blocked hold the lock.
Unlock(m) == [w |-> "", active |-> m.blocked, blocked |-> {}]

\* RLock: the reader holds the lock, or is blocked when a writer is announced.
RLock(m, g) ==
    IF m.w # "" THEN [m EXCEPT !.blocked = @ \cup {g}]
    ELSE [m EXCEPT !.active = @ \cup {g}]

\* Variant: RUnlock leaves the reader among those that hold the lock.
RUnlockForgotten(m, g) == m

RUnlock(m, g) == [m EXCEPT !.active = @ \ {g}]

\* The pointers to partitions, in a fixed order: the values of the sync.Map, then the
\* sc of the goroutines; 0 where there is none.
Pointers(map, gs) ==
    << IF "test-session" \in DOMAIN map THEN map["test-session"] ELSE 0,
       IF "other-session" \in DOMAIN map THEN map["other-session"] ELSE 0,
       IF gs["c1"].pc # "idle" THEN gs["c1"].sc ELSE 0,
       IF gs["c2"].pc # "idle" THEN gs["c2"].sc ELSE 0,
       IF gs[Sweeper].pc # "idle" THEN gs[Sweeper].sc ELSE 0 >>

\* Which address a partition has does not matter: the partitions are numbered in the
\* order of the pointers to them.
Renumbered(o, ptrs) ==
    IF \A i \in DOMAIN ptrs : ptrs[i] # o THEN 0
    ELSE LET first == CHOOSE i \in DOMAIN ptrs : ptrs[i] = o /\ \A j \in 1..(i - 1) : ptrs[j] # o
         IN  Cardinality({ptrs[j] : j \in 1..first} \ {0})

\* The next state of the sync.Map, of the partitions and of the goroutines; the
\* partitions nothing points to are collected.
Step(map, h, gs) ==
    \E ptrs \in {Pointers(map, gs)} :
      \E number \in {[o \in Addresses \cup {0} |-> IF o = 0 THEN 0 ELSE Renumbered(o, ptrs)]} :
        /\ invalidSignatureCache' = [k \in DOMAIN map |-> number[map[k]]]
        /\ goroutines' = [g \in Goroutines |->
                             [gs[g] EXCEPT !.sc = IF gs[g].pc = "idle" THEN 0 ELSE number[@]]]
        /\ heap' = [n \in {number[o] : o \in DOMAIN h} \ {0} |->
                       h[CHOOSE o \in DOMAIN h : number[o] = n]]

\* The first address not in use.
NewAddress(h) == CHOOSE o \in Addresses \ DOMAIN h : \A p \in Addresses \ DOMAIN h : o <= p

\* The sync.Map without a key: Delete.
MapDelete(map, key) == [k \in DOMAIN map \ {key} |-> map[k]]

\* Where a Range goes after a key: to the next key, or to its end.
AfterKey(g, todo) ==
    IF todo = {} THEN IdleGoroutine ELSE [g EXCEPT !.pc = "range", !.todo = todo, !.sc = 0]

coarseVars == <<cache, sweeping, recorded, pc, req, journal, call>>

\* CacheInvalidSignature(sessionID, signature) begins: the arguments are not empty,
\* invalidCleanupOnce.Do has started the sweep, and the sync.Map is read.  The history
\* of the records that overlap is kept when history is set.
RecordBegin(c, sessionID, signature, history) ==
    /\ goroutines[c].pc = "idle"
    /\ cleanupStarted' = TRUE
    /\ LET hit   == sessionID \in DOMAIN invalidSignatureCache
           peers == {d \in Callers \ {c} : /\ goroutines[d].pc # "idle"
                                           /\ goroutines[d].op = "record"
                                           /\ goroutines[d].session = sessionID}
           me    == [IdleGoroutine EXCEPT
                        !.pc = IF hit THEN "lock" ELSE "store",
                        !.op = "record", !.session = sessionID, !.signature = signature,
                        !.sc = IF hit THEN invalidSignatureCache[sessionID] ELSE 0,
                        !.fresh = (history /\ ~hit), !.overlap = (history /\ peers # {})]
       IN  Step(invalidSignatureCache, heap,
                [g \in Goroutines |->
                    IF g = c THEN me
                    ELSE IF history /\ g \in peers THEN [goroutines[g] EXCEPT !.overlap = TRUE]
                    ELSE goroutines[g]])
    /\ UNCHANGED <<now, coarseVars>>

\* getOrCreateInvalidSession after a Load that found nothing: LoadOrStore.
RecordLoadOrStore(c) ==
    /\ goroutines[c].pc = "store"
    /\ LET key == goroutines[c].session
       IN  IF key \in DOMAIN invalidSignatureCache
           THEN Step(invalidSignatureCache, heap,
                     [goroutines EXCEPT ![c].pc = "lock", ![c].sc = invalidSignatureCache[key]])
           ELSE LET o == NewAddress(heap)
                IN  Step((key :> o) @@ invalidSignatureCache,
                         (o :> NewSessionInvalidCache) @@ heap,
                         [goroutines EXCEPT ![c].pc = "lock", ![c].sc = o])
    /\ UNCHANGED <<cleanupStarted, now, coarseVars>>

\* sc.mu.Lock() of CacheInvalidSignature and of the sweep: the writers' side is free
\* and g takes it; g holds the lock at once when no reader holds it.
Lock(g) ==
    /\ goroutines[g].pc = "lock"
    /\ LET o == goroutines[g].sc
       IN  /\ heap[o].mu.w = ""
           /\ Step(invalidSignatureCache,
                   [heap EXCEPT ![o].mu = LockAnnounce(@, g)],
                   [goroutines EXCEPT ![g].pc = IF heap[o].mu.active = {} THEN "held"
                                                ELSE "drain"])
    /\ UNCHANGED <<cleanupStarted, now, coarseVars>>

\* sc.mu.Lock(), second half: the last reader has left.
LockDrained(g) ==
    /\ goroutines[g].pc = "drain"
    /\ heap[goroutines[g].sc].mu.active = {}
    /\ Step(invalidSignatureCache, heap, [goroutines EXCEPT ![g].pc = "held"])
    /\ UNCHANGED <<cleanupStarted, now, coarseVars>>

\* CacheInvalidSignature under the lock: the entry is written, the lock released,
\* and the function returns.
RecordEnd(c) ==
    /\ goroutines[c].pc = "held"
    /\ goroutines[c].op = "record"
    /\ LET me == goroutines[c]
           o  == me.sc
       IN  Step(invalidSignatureCache,
                [heap EXCEPT ![o].entries = (me.signature :> now) @@ @,
                             ![o].mu = Unlock(@)],
                [goroutines EXCEPT ![c] =
                    [IdleGoroutine EXCEPT !.last =
                        IF me.overlap
                        THEN [session |-> me.session, signature |-> me.signature,
                              fresh |-> me.fresh]
                        ELSE NoRecord]])
    /\ UNCHANGED <<cleanupStarted, now, coarseVars>>

\* IsInvalidSignature(sessionID, signature) begins: the sync.Map is read; the function
\* returns false when the session has no partition.
ReadBegin(c, sessionID, signature) ==
    /\ goroutines[c].pc = "idle"
    /\ Step(invalidSignatureCache, heap,
            [goroutines EXCEPT ![c] =
                IF sessionID \in DOMAIN invalidSignatureCache
                THEN [IdleGoroutine EXCEPT !.pc = "rlock", !.op = "read",
                                           !.session = sessionID, !.signature = signature,
                                           !.sc = invalidSignatureCache[sessionID]]
                ELSE IdleGoroutine])
    /\ UNCHANGED <<cleanupStarted, now, coarseVars>>

\* sc.mu.RLock()
ReadRLock(c) ==
    /\ goroutines[c].pc = "rlock"
    /\ LET o == goroutines[c].sc
           m == RLock(heap[o].mu, c)
       IN  Step(invalidSignatureCache, [heap EXCEPT ![o].mu = m],
                [goroutines EXCEPT ![c].pc = IF c \in m.active THEN "rheld" ELSE "rwait"])
    /\ UNCHANGED <<cleanupStarted, now, coarseVars>>

\* sc.mu.RLock() of a blocked reader returns: the writer has unlocked.
ReadAdmitted(c) ==
    /\ goroutines[c].pc = "rwait"
    /\ c \in heap[goroutines[c].sc].mu.active
    /\ Step(invalidSignatureCache, heap, [goroutines EXCEPT ![c].pc = "rheld"])
    /\ UNCHANGED <<cleanupStarted, now, coarseVars>>

\* IsInvalidSignature under the lock: the entry is read, the lock released, and the
\* function returns.
ReadEnd(c) ==
    /\ goroutines[c].pc = "rheld"
    /\ LET o == goroutines[c].sc
       IN  Step(invalidSignatureCache, [heap EXCEPT ![o].mu = RUnlock(@, c)],
                [goroutines EXCEPT ![c] = IdleGoroutine])
    /\ UNCHANGED <<cleanupStarted, now, coarseVars>>

\* ClearInvalidSignatureCache(sessionID) with a session id: one Delete.
ClearSession(c, sessionID) ==
    /\ goroutines[c].pc = "idle"
    /\ Step(MapDelete(invalidSignatureCache, sessionID), heap,
            [goroutines EXCEPT ![c] = IdleGoroutine])
    /\ UNCHANGED <<cleanupStarted, now, coarseVars>>

\* ClearInvalidSignatureCache(""): the Range begins.
ClearAllBegin(c) ==
    /\ goroutines[c].pc = "idle"
    /\ Step(invalidSignatureCache, heap,
            [goroutines EXCEPT ![c] =
                IF DOMAIN invalidSignatureCache = {} THEN IdleGoroutine
                ELSE [IdleGoroutine EXCEPT !.pc = "clear", !.op = "clear",
                                           !.todo = DOMAIN invalidSignatureCache]])
    /\ UNCHANGED <<cleanupStarted, now, coarseVars>>

\* ClearInvalidSignatureCache(""): the callback of the Range deletes a key.
ClearAllDelete(c, key) ==
    /\ goroutines[c].pc = "clear"
    /\ key \in goroutines[c].todo
    /\ LET todo == goroutines[c].todo \ {key}
       IN  Step(MapDelete(invalidSignatureCache, key), heap,
                [goroutines EXCEPT ![c] = IF todo = {} THEN IdleGoroutine
                                          ELSE [@ EXCEPT !.todo = todo]])
    /\ UNCHANGED <<cleanupStarted, now, coarseVars>>

\* The ticker of startInvalidSignatureCleanup fires: purgeExpiredInvalidSignatures
\* takes the time and its Range begins.
PassBegin ==
    /\ cleanupStarted
    /\ goroutines[Sweeper].pc = "idle"
    /\ Step(invalidSignatureCache, heap,
            [goroutines EXCEPT ![Sweeper] =
                IF DOMAIN invalidSignatureCache = {} THEN IdleGoroutine
                ELSE [IdleGoroutine EXCEPT !.pc = "range", !.op = "sweep", !.t = now,
                                           !.todo = DOMAIN invalidSignatureCache]])
    /\ UNCHANGED <<cleanupStarted, now, coarseVars>>

\* The Range of the sweep comes to a key: the callback gets the partition that is
\* in the sync.Map now; a key that was deleted meanwhile is passed over.
PassVisit(key) ==
    /\ goroutines[Sweeper].pc = "range"
    /\ key \in goroutines[Sweeper].todo
    /\ LET me   == goroutines[Sweeper]
           todo == me.todo \ {key}
       IN  Step(invalidSignatureCache, heap,
                [goroutines EXCEPT ![Sweeper] =
                    IF key \in DOMAIN invalidSignatureCache
                    THEN [me EXCEPT !.pc = "lock", !.session = key, !.todo = todo,
                                    !.sc = invalidSignatureCache[key]]
                    ELSE AfterKey(me, todo)])
    /\ UNCHANGED <<cleanupStarted, now, coarseVars>>

\* The callback under the lock: the expired entries are deleted, isEmpty is taken
\* and the lock released.
PassPurge ==
    /\ goroutines[Sweeper].pc = "held"
    /\ LET me   == goroutines[Sweeper]
           o    == me.sc
           kept == purgeExpiredInvalidSignatures((me.session :> heap[o].entries),
                                                 me.session, me.t)[me.session]
       IN  Step(invalidSignatureCache,
                [heap EXCEPT ![o].entries = kept, ![o].mu = Unlock(@)],
                [goroutines EXCEPT ![Sweeper] =
                    IF DOMAIN kept = {} THEN [me EXCEPT !.pc = "delete", !.sc = 0]
                    ELSE AfterKey(me, me.todo)])
    /\ UNCHANGED <<cleanupStarted, now, coarseVars>>

\* The callback, the lock released: the key of a partition found empty is deleted.
PassDelete ==
    /\ goroutines[Sweeper].pc = "delete"
    /\ LET me == goroutines[Sweeper]
       IN  Step(MapDelete(invalidSignatureCache, me.session), heap,
                [goroutines EXCEPT ![Sweeper] = AfterKey(me, me.todo)])
    /\ UNCHANGED <<cleanupStarted, now, coarseVars>>

\* What the callers do: c1 records and reads, c2 reads and clears.
Recorders == {"c1"}
Readers == Callers
Clearers == {"c2"}

NextLock ==
    \/ \E c \in Recorders, s \in LockSessions, g \in LockSignatures : RecordBegin(c, s, g, FALSE)
    \/ \E c \in Callers : RecordLoadOrStore(c)
    \/ \E g \in Goroutines : Lock(g)
    \/ \E g \in Goroutines : LockDrained(g)
    \/ \E c \in Callers : RecordEnd(c)
    \/ \E c \in Readers, s \in LockSessions, g \in LockSignatures : ReadBegin(c, s, g)
    \/ \E c \in Callers : ReadRLock(c)
    \/ \E c \in Callers : ReadAdmitted(c)
    \/ \E c \in Callers : ReadEnd(c)
    \/ \E c \in Clearers, s \in LockSessions : ClearSession(c, s)
    \/ \E c \in Clearers : ClearAllBegin(c)
    \/ \E c \in Callers, s \in LockSessions : ClearAllDelete(c, s)
    \/ PassBegin
    \/ \E s \in LockSessions : PassVisit(s)
    \/ PassPurge
    \/ PassDelete

\* The goroutines take their steps in any order, in less than an hour.
SpecLock == Init /\ [][NextLock]_vars

\* The steps of a goroutine inside the function it runs, but for taking the writers'
\* side of a mu.
Proceed(g) ==
    \/ LockDrained(g)
    \/ g \in Callers /\ RecordLoadOrStore(g)
    \/ g \in Callers /\ RecordEnd(g)
    \/ g \in Callers /\ ReadRLock(g)
    \/ g \in Callers /\ ReadAdmitted(g)
    \/ g \in Callers /\ ReadEnd(g)
    \/ g \in Callers /\ \E s \in LockSessions : ClearAllDelete(g, s)
    \/ g = Sweeper /\ PassBegin
    \/ g = Sweeper /\ \E s \in LockSessions : PassVisit(s)
    \/ g = Sweeper /\ PassPurge
    \/ g = Sweeper /\ PassDelete

\* The goroutines are scheduled fairly: a goroutine that can take a step of the
\* function it runs takes it, the ticker of the sweep keeps firing, and a goroutine
\* that waits for the writers' side of a mu gets it when it is free often enough (the
\* mutex hands itself to a waiter that has waited long).  No caller has to call.
Fairness == \A g \in Goroutines : WF_vars(Proceed(g)) /\ SF_vars(Lock(g))

FairLock == SpecLock /\ Fairness

\* One session over the hours: c1 records, c2 reads and clears, the sweep passes.
NextPurge ==
    \/ \E g \in LockSignatures : RecordBegin("c1", "test-session", g, FALSE)
    \/ RecordLoadOrStore("c1")
    \/ \E g \in Goroutines : Lock(g)
    \/ \E g \in Goroutines : LockDrained(g)
    \/ RecordEnd("c1")
    \/ \E g \in LockSignatures : ReadBegin("c2", "test-session", g)
    \/ ReadRLock("c2")
    \/ ReadAdmitted("c2")
    \/ ReadEnd("c2")
    \/ ClearSession("c2", "test-session")
    \/ PassBegin
    \/ PassVisit("test-session")
    \/ PassPurge
    \/ PassDelete
    \/ Tick

SpecPurge == Init /\ [][NextPurge]_vars

FairPurge == SpecPurge /\ Fairness

\* Two callers record for one session while the sweep passes; the history of the
\* records that overlap is kept.
NextRace ==
    \/ \E c \in Callers, g \in Signatures : RecordBegin(c, "test-session", g, TRUE)
    \/ \E c \in Callers : RecordLoadOrStore(c)
    \/ \E g \in Goroutines : Lock(g)
    \/ \E c \in Callers : RecordEnd(c)
    \/ PassBegin
    \/ PassVisit("test-session")
    \/ PassPurge
    \/ PassDelete

SpecRace == Init /\ [][NextRace]_vars

----------------------------------------------------------------------------
(* Properties of the locking.                                               *)

\* The partitions whose mu goroutine g holds, or has entered to wait for: as the
\* writer announced, as a reader that holds it, as a reader that is blocked.
Engaged(g) ==
    {o \in DOMAIN heap : \/ heap[o].mu.w = g
                         \/ g \in heap[o].mu.active
                         \/ g \in heap[o].mu.blocked}

\* The partition whose mu goroutine g is about to lock.
Wanted(g) ==
    IF goroutines[g].pc \in {"lock", "rlock"} THEN {goroutines[g].sc} ELSE {}

\* C35: locking is per session and never nested.  A goroutine, the sweep among them,
\* holds or waits for the lock of at most one partition at any instant, and of none
\* when it is about to lock one; the sweep has released the lock when it is about to
\* delete the key from the sync.Map; CacheInvalidSignature and IsInvalidSignature for
\* session A neither hold nor wait for the lock of the partition of another session B.
C35_LockingPerSessionNeverNested ==
    /\ \A g \in Goroutines :
          /\ Cardinality(Engaged(g)) <= 1
          /\ goroutines[g].pc \in {"idle", "store", "lock", "rlock", "range", "clear", "delete"}
                => Engaged(g) = {}
          /\ goroutines[g].pc \in {"drain", "held", "rwait", "rheld"}
                => Engaged(g) = {goroutines[g].sc}
    /\ \A c \in Callers, B \in LockSessions :
          (/\ goroutines[c].op \in {"record", "read"}
           /\ goroutines[c].session # B
           /\ B \in DOMAIN invalidSignatureCache)
              => invalidSignatureCache[B] \notin (Engaged(c) \cup Wanted(c))

\* The sweep has found the partition of one session empty, has released its lock and
\* is about to delete its key, while c1 records under the lock of the partition of
\* the other session and c2 reads that partition, blocked behind c1.
C35_Witness ==
    /\ goroutines[Sweeper].pc = "delete"
    /\ goroutines["c1"].pc = "held" /\ goroutines["c1"].op = "record"
    /\ goroutines["c1"].session # goroutines[Sweeper].session
    /\ goroutines["c2"].pc = "rwait"
    /\ goroutines["c2"].sc = goroutines["c1"].sc
    /\ goroutines[Sweeper].session \in DOMAIN invalidSignatureCache

\* The entry of signature g, recorded at hour t, is in the partition of the session.
Stored(sessionID, g, t) ==
    /\ sessionID \in DOMAIN invalidSignatureCache
    /\ g \in DOMAIN heap[invalidSignatureCache[sessionID]].entries
    /\ heap[invalidSignatureCache[sessionID]].entries[g] = t

\* The session has a partition, and the partition has no entry.
EmptyPartition(sessionID) ==
    /\ sessionID \in DOMAIN invalidSignatureCache
    /\ DOMAIN heap[invalidSignatureCache[sessionID]].entries = {}

\* The hours of a record that is older than the TTL before the clock stops.
StaleTimes == 0..(MaxTime - InvalidSignatureCacheTTL - 1)

\* C36: once a first record has started the sweep, the sweep runs for ever: it stays
\* started and, while the sync.Map has a key, a pass begins again and again.  Under
\* fair scheduling an entry whose age exceeds the TTL is eventually out of the store,
\* unless it is recorded again, and a partition without entries is eventually out of
\* the sync.Map, unless an entry is recorded in it.
C36_SweepRunsForEverAndRemoves ==
    /\ [](cleanupStarted => []cleanupStarted)
    /\ (cleanupStarted /\ DOMAIN invalidSignatureCache # {})
          ~> (goroutines[Sweeper].pc # "idle" \/ DOMAIN invalidSignatureCache = {})
    /\ \A g \in LockSignatures, t \in StaleTimes :
          (Stored("test-session", g, t) /\ now - t > InvalidSignatureCacheTTL)
              ~> ~Stored("test-session", g, t)
    /\ EmptyPartition("test-session") ~> ~EmptyPartition("test-session")

\* A pass of the sweep that began in hour 4 holds the lock of the partition, and the
\* partition has the entry recorded in hour 0.
C36_Witness ==
    /\ cleanupStarted
    /\ goroutines[Sweeper].pc = "held"
    /\ goroutines[Sweeper].t - 0 > InvalidSignatureCacheTTL
    /\ Stored("test-session", "g1", 0)
    /\ invalidSignatureCache["test-session"] = goroutines[Sweeper].sc

\* C37: concurrent records on one session are all kept.  When the two callers have
\* returned from records for the same session that overlapped, both begun while the
\* session had no partition, or both of the same signature, the session has one
\* partition and the partition has the entry of each of the two signatures.
C37_ConcurrentRecordsAreKept ==
    LET a == goroutines["c1"].last
        b == goroutines["c2"].last
    IN  (/\ goroutines["c1"].pc = "idle" /\ goroutines["c2"].pc = "idle"
         /\ a # NoRecord /\ b # NoRecord
         /\ a.session = b.session
         /\ (a.fresh /\ b.fresh) \/ a.signature = b.signature)
            => /\ a.session \in DOMAIN invalidSignatureCache
               /\ {a.signature, b.signature}
                     \subseteq DOMAIN heap[invalidSignatureCache[a.session]].entries

\* C40: under fair scheduling every call of CacheInvalidSignature, IsInvalidSignature
\* and ClearInvalidSignatureCache and every pass of the sweep that has begun
\* eventually returns, whatever the other goroutines do on the same session or on
\* another: no goroutine waits for ever for a lock, and none is left without a step.
C40_EveryCallReturns ==
    \A g \in Goroutines : (goroutines[g].pc # "idle") ~> (goroutines[g].pc = "idle")

\* The three goroutines contend for one partition: c2 reads under the lock, c1 has
\* announced its Lock and waits for the reader to leave, the sweep waits for the
\* writers' side.
C40_Witness ==
    /\ goroutines["c2"].pc = "rheld"
    /\ goroutines["c1"].pc = "drain"
    /\ goroutines[Sweeper].pc = "lock"
    /\ goroutines["c1"].sc = goroutines["c2"].sc
    /\ goroutines[Sweeper].sc = goroutines["c2"].sc

----------------------------------------------------------------------------
(* Properties of the retry payload.                                         *)

\* The positions of the thinking blocks of a payload.
ThinkingPositions(payload) ==
    {pos \in Positions(payload) : BlockType(BlockAt(payload, pos)) = "thinking"}

\* C38: recovery makes progress.  Whenever a request has issued a retry and the
\* payload of its first attempt held a thinking block, the payload of the retry is
\* not the payload of the first attempt and holds fewer thinking blocks, whatever
\* coordinate the upstream reported.
C38_RetryMakesProgress ==
    \A r \in Reqs :
        (Len(req[r].sent) = 2 /\ ThinkingPositions(req[r].sent[1]) # {}) =>
            /\ req[r].sent[2] # req[r].sent[1]
            /\ Cardinality(ThinkingPositions(req[r].sent[2]))
                  < Cardinality(ThinkingPositions(req[r].sent[1]))

\* C39: recovery never re-introduces a block that pre-sanitisation removed.  Within a
\* request the positions that hold a thinking block in the payload of the retry are
\* among the positions that hold one in the payload of the first attempt.
C39_RetryReintroducesNoThinking ==
    \A r \in Reqs :
        Len(req[r].sent) = 2 =>
            ThinkingPositions(req[r].sent[2]) \subseteq ThinkingPositions(req[r].sent[1])

====
